---------------------------- MODULE Spec2Model ----------------------------
(***************************************************************************)
(* Model of the node-specific-sizing admission webhook:                    *)
(*   - pkg/resource_properties (the ResourceProperties algebra),           *)
(*   - the patch pipeline createPatch (src/unnamed/part_004),              *)
(*   - the transport handlers serve / mutate (src/cmd/webhook.go).         *)
(*                                                                         *)
(* float64 values are modelled as exact rationals <<n, d>> (d > 0, lowest  *)
(* terms), with the IEEE special values as <<0,0>> (NaN), <<1,0>> (+Inf)   *)
(* and <<-1,0>> (-Inf).  Rounding of finite values is not modelled.        *)
(***************************************************************************)
EXTENDS Integers, Sequences, FiniteSets, TLC

(***************************************************************************)
(* Bounds of the model.                                                    *)
(***************************************************************************)
MaxContainers == 2
MaxTerms == 2

(***************************************************************************)
(* float64 arithmetic.                                                     *)
(***************************************************************************)
Abs(x) == IF x < 0 THEN -x ELSE x

Sign(x) == IF x < 0 THEN -1 ELSE IF x > 0 THEN 1 ELSE 0

RECURSIVE Gcd(_, _)
Gcd(a, b) == IF b = 0 THEN a ELSE Gcd(b, a % b)

NaN == <<0, 0>>
PosInf == <<1, 0>>
NegInf == <<-1, 0>>

IsNaN(x) == x[2] = 0 /\ x[1] = 0
IsInf(x) == x[2] = 0 /\ x[1] # 0
IsFinite(x) == x[2] # 0

\* The float64 nearest to the rational n/d (d # 0), in lowest terms.
Rat(n, d) ==
    LET s == IF d < 0 THEN -1 ELSE 1
        g == Gcd(Abs(n), Abs(d))
    IN <<(s * n) \div g, (s * d) \div g>>

FromInt(n) == <<n, 1>>
Zero == <<0, 1>>
One == <<1, 1>>

SignOf(x) == Sign(x[1])

\* a * b in float64
FMul(a, b) ==
    IF IsNaN(a) \/ IsNaN(b) THEN NaN
    ELSE IF IsInf(a) \/ IsInf(b)
         THEN (IF SignOf(a) * SignOf(b) = 0 THEN NaN ELSE <<SignOf(a) * SignOf(b), 0>>)
         ELSE LET g == Gcd(Abs(a[1]), b[2])
                  h == Gcd(Abs(b[1]), a[2])
              IN Rat((a[1] \div g) * (b[1] \div h), (a[2] \div h) * (b[2] \div g))

\* a / b in float64: x/0 is +-Inf, 0/0 is NaN, nothing panics
FDiv(a, b) ==
    IF IsNaN(a) \/ IsNaN(b) THEN NaN
    ELSE IF IsInf(a) THEN (IF IsInf(b) THEN NaN
                           ELSE <<SignOf(a) * (IF SignOf(b) < 0 THEN -1 ELSE 1), 0>>)
    ELSE IF IsInf(b) THEN Zero
    ELSE IF b[1] = 0 THEN (IF a[1] = 0 THEN NaN ELSE <<SignOf(a), 0>>)
    ELSE Rat(a[1] * b[2], a[2] * b[1])

\* a + b in float64
FAdd(a, b) ==
    IF IsNaN(a) \/ IsNaN(b) THEN NaN
    ELSE IF IsInf(a) /\ IsInf(b) THEN (IF a = b THEN a ELSE NaN)
    ELSE IF IsInf(a) THEN a
    ELSE IF IsInf(b) THEN b
    ELSE Rat(a[1] * b[2] + b[1] * a[2], a[2] * b[2])

FSub(a, b) == FAdd(a, FMul(<<-1, 1>>, b))

\* a < b in float64: every comparison with NaN is false
FLt(a, b) ==
    IF IsNaN(a) \/ IsNaN(b) THEN FALSE
    ELSE IF IsInf(a) \/ IsInf(b)
         THEN (IF IsInf(a) /\ IsInf(b) THEN a[1] < b[1]
               ELSE IF IsInf(a) THEN a[1] < 0 ELSE b[1] > 0)
         ELSE a[1] * b[2] < b[1] * a[2]

FGt(a, b) == FLt(b, a)
FLe(a, b) == ~IsNaN(a) /\ ~IsNaN(b) /\ ~FLt(b, a)

\* math.Floor of a finite value, as an integer
Floor(x) == IF x[1] >= 0 THEN x[1] \div x[2] ELSE -((-x[1] + x[2] - 1) \div x[2])

\* Go's int64(x) of a finite value: truncation toward zero
Trunc(x) == IF x[1] >= 0 THEN x[1] \div x[2] ELSE -((-x[1]) \div x[2])

RECURSIVE Pow10(_)
Pow10(k) == IF k <= 0 THEN 1 ELSE 10 * Pow10(k - 1)


(***************************************************************************)
(* Texts (annotation values) are tuples of one-character strings, so that  *)
(* the parsers below read them character by character.                     *)
(***************************************************************************)
Digits == {"0", "1", "2", "3", "4", "5", "6", "7", "8", "9"}

DigitValue(c) ==
    CASE c = "0" -> 0 [] c = "1" -> 1 [] c = "2" -> 2 [] c = "3" -> 3
      [] c = "4" -> 4 [] c = "5" -> 5 [] c = "6" -> 6 [] c = "7" -> 7
      [] c = "8" -> 8 [] c = "9" -> 9

\* ASCII lower-casing of the letters the special float words are made of
LowerChar(c) ==
    CASE c = "N" -> "n" [] c = "A" -> "a" [] c = "I" -> "i" [] c = "F" -> "f"
      [] c = "T" -> "t" [] c = "Y" -> "y" [] OTHER -> c

Lower(t) == [i \in 1..Len(t) |-> LowerChar(t[i])]

HasSign(t) == Len(t) > 0 /\ t[1] \in {"+", "-"}
StripSign(t) == IF HasSign(t) THEN SubSeq(t, 2, Len(t)) ELSE t
TextSign(t) == IF Len(t) > 0 /\ t[1] = "-" THEN -1 ELSE 1

\* digits with at most one decimal point and at least one digit
IsDecimal(t) ==
    /\ \A i \in 1..Len(t) : t[i] \in Digits \cup {"."}
    /\ Cardinality({i \in 1..Len(t) : t[i] = "."}) <= 1
    /\ \E i \in 1..Len(t) : t[i] \in Digits

RECURSIVE DigitsToInt(_)
DigitsToInt(t) ==
    IF Len(t) = 0 THEN 0
    ELSE 10 * DigitsToInt(SubSeq(t, 1, Len(t) - 1)) + DigitValue(t[Len(t)])

\* value of an unsigned decimal text (IsDecimal holds)
DecimalValue(t) ==
    LET dots == {i \in 1..Len(t) : t[i] = "."}
        dot == IF dots = {} THEN Len(t) + 1 ELSE CHOOSE i \in dots : TRUE
        ds == SelectSeq(t, LAMBDA c : c # ".")
    IN Rat(DigitsToInt(ds), Pow10(Len(t) - dot))

\* strconv.ParseFloat(value, 64) on the texts of this model: an optionally
\* signed decimal, or the special words NaN, Inf, Infinity in any letter case
\* (Inf and Infinity may carry a sign, NaN may not).  [ok, value].
ParseFloat(t) ==
    LET l == Lower(t)
        u == StripSign(l)
    IN IF l = <<"n", "a", "n">> THEN [ok |-> TRUE, value |-> NaN]
       ELSE IF u = <<"i", "n", "f">> \/ u = <<"i", "n", "f", "i", "n", "i", "t", "y">>
            THEN [ok |-> TRUE, value |-> <<TextSign(t), 0>>]
       ELSE IF IsDecimal(u)
            THEN [ok |-> TRUE, value |-> FMul(FromInt(TextSign(t)), DecimalValue(u))]
       ELSE [ok |-> FALSE, value |-> Zero]

\* parseFraction: a float64 greater than 0 and at most 1.  [ok, value].
parseFraction(t) ==
    LET r == ParseFloat(t)
    IN IF ~r.ok THEN [ok |-> FALSE, value |-> Zero]
       ELSE IF FLe(r.value, Zero) THEN [ok |-> FALSE, value |-> Zero]
       ELSE IF FGt(r.value, One) THEN [ok |-> FALSE, value |-> Zero]
       ELSE [ok |-> TRUE, value |-> r.value]

\* the suffixes of resource.ParseQuantity this model reads, with multipliers
SuffixMultiplier(s) ==
    CASE s = <<>> -> One
      [] s = <<"m">> -> Rat(1, 1000)
      [] s = <<"k">> -> FromInt(1000)
      [] s = <<"K", "i">> -> FromInt(1024)
      [] s = <<"M">> -> FromInt(1000000)
      [] s = <<"G">> -> FromInt(1000000000)
      [] OTHER -> Zero

\* parseQuantity: resource.ParseQuantity then AsApproximateFloat64, for an
\* optionally signed decimal followed by one of the suffixes above.
parseQuantity(t) ==
    LET u == StripSign(t)
        numLen == Cardinality({i \in 1..Len(u) :
                     \A j \in 1..i : u[j] \in Digits \cup {"."}})
        num == SubSeq(u, 1, numLen)
        suf == SubSeq(u, numLen + 1, Len(u))
    IN IF IsDecimal(num) /\ SuffixMultiplier(suf) # Zero
       THEN [ok |-> TRUE,
             value |-> FMul(FMul(FromInt(TextSign(t)), DecimalValue(num)),
                            SuffixMultiplier(suf))]
       ELSE [ok |-> FALSE, value |-> Zero]


(***************************************************************************)
(* pkg/resource_properties: the property sets.                             *)
(* A ResourceProperties value is a function from the bound pairs           *)
(* <<resourceProp, resourceName>> to bindings [resourceKind, resourceProp, *)
(* resourceName, value]: at most one binding per pair, absent means unset. *)
(***************************************************************************)
ResourceRequests == "requests"
ResourceLimits == "limits"
ResourcePodMinimum == "pod-minimum"
ResourcePodMaximum == "pod-maximum"

ResourceFraction == "fraction"
ResourceQuantity == "quantity"

allValidResourceProperties ==
    {ResourceRequests, ResourceLimits, ResourcePodMinimum, ResourcePodMaximum}

ResourceCPU == "cpu"
ResourceMemory == "memory"
ResourceNames == {ResourceCPU, ResourceMemory}

NewBinding(kind, prop, res, v) ==
    [resourceKind |-> kind, resourceProp |-> prop, resourceName |-> res, value |-> v]

\* New(): no binding
New == <<>>

IsBound(rp, prop, res) == <<prop, res>> \in DOMAIN rp

\* GetValue: the value of a binding the caller knows to exist
GetValue(rp, prop, res) == rp[<<prop, res>>].value

\* All(): the bindings, which Go yields in the unspecified order of its maps
All(rp) == {rp[k] : k \in DOMAIN rp}

\* BindPropertyFloat: an existing binding keeps its kind and takes the value
BindPropertyFloat(rp, kind, prop, res, v) ==
    IF IsBound(rp, prop, res)
    THEN [rp EXCEPT ![<<prop, res>>].value = v]
    ELSE (<<prop, res>> :> NewBinding(kind, prop, res, v)) @@ rp

\* BindPropertyString: [ok, props]; on a parse failure nothing is bound
BindPropertyString(rp, kind, prop, res, text) ==
    LET parsed == IF kind = ResourceFraction THEN parseFraction(text)
                  ELSE parseQuantity(text)
    IN IF parsed.ok
       THEN [ok |-> TRUE, props |-> BindPropertyFloat(rp, kind, prop, res, parsed.value)]
       ELSE [ok |-> FALSE, props |-> rp]

\* Add: in place on the receiver; sums into a matching binding, copies otherwise
Add(rp, operand) ==
    [k \in DOMAIN rp \cup DOMAIN operand |->
        IF k \in DOMAIN rp /\ k \in DOMAIN operand
        THEN [rp[k] EXCEPT !.value = FAdd(rp[k].value, operand[k].value)]
        ELSE IF k \in DOMAIN rp THEN rp[k] ELSE operand[k]]

\* a Mul that keeps, unmultiplied, the receiver's bindings the operand lacks
MulKeepingUnmatched(rp, operand) ==
    [k \in DOMAIN rp |->
        IF k \in DOMAIN operand
        THEN NewBinding(ResourceQuantity, rp[k].resourceProp, rp[k].resourceName,
                        FMul(rp[k].value, operand[k].value))
        ELSE rp[k]]

\* a Mul whose products are quantities whatever the kinds multiplied
MulAsQuantities(rp, operand) ==
    [k \in DOMAIN rp \cap DOMAIN operand |->
        NewBinding(ResourceQuantity, rp[k].resourceProp, rp[k].resourceName,
                   FMul(rp[k].value, operand[k].value))]

\* Mul: a new set with the bindings both sides have
Mul(rp, operand) ==
    [k \in DOMAIN rp \cap DOMAIN operand |->
        NewBinding(IF rp[k].resourceKind = ResourceFraction
                      /\ operand[k].resourceKind = ResourceFraction
                   THEN ResourceFraction ELSE ResourceQuantity,
                   rp[k].resourceProp, rp[k].resourceName,
                   FMul(rp[k].value, operand[k].value))]

\* a Div that passes over the receiver's bindings the operand lacks
DivSkips(rp, operand) == FALSE

\* Div dereferences the operand's binding without looking whether it exists:
\* a receiver binding the operand lacks is a nil dereference (a panic)
DivPanics(rp, operand) == \E k \in DOMAIN rp : k \notin DOMAIN operand

\* a Div that hands the receiver's values back undivided
DivKeepingReceiver(rp, operand) ==
    [k \in DOMAIN rp \cap DOMAIN operand |->
        NewBinding(ResourceFraction, rp[k].resourceProp, rp[k].resourceName, rp[k].value)]

\* Div: a new set with one binding per receiver binding (when it does not panic)
Div(rp, operand) ==
    [k \in DOMAIN rp \cap DOMAIN operand |->
        NewBinding(IF rp[k].resourceKind = operand[k].resourceKind
                   THEN ResourceFraction ELSE ResourceQuantity,
                   rp[k].resourceProp, rp[k].resourceName,
                   FDiv(rp[k].value, operand[k].value))]

\* allResourceNames: the resource names that have some binding
allResourceNames(rp) == {k[2] : k \in DOMAIN rp}

\* where request > limit, the limit takes the request's value
ForceLimitUpToRequest(rp) ==
    [k \in DOMAIN rp |->
        IF /\ k[1] = ResourceLimits
           /\ IsBound(rp, ResourceRequests, k[2])
           /\ FGt(rp[<<ResourceRequests, k[2]>>].value, rp[k].value)
        THEN [rp[k] EXCEPT !.value = rp[<<ResourceRequests, k[2]>>].value]
        ELSE rp[k]]

\* ForceLimitAboveRequest: where request > limit, the request takes the limit's value
ForceLimitAboveRequest(rp) ==
    [k \in DOMAIN rp |->
        IF /\ k[1] = ResourceRequests
           /\ IsBound(rp, ResourceLimits, k[2])
           /\ FGt(rp[k].value, rp[<<ResourceLimits, k[2]>>].value)
        THEN [rp[k] EXCEPT !.value = rp[<<ResourceLimits, k[2]>>].value]
        ELSE rp[k]]

\* one binding's value after the two clamping steps, minimum first
ClampValue(v, userSettings, res) ==
    LET raised == IF IsBound(userSettings, ResourcePodMinimum, res)
                     /\ FLt(v, GetValue(userSettings, ResourcePodMinimum, res))
                  THEN GetValue(userSettings, ResourcePodMinimum, res) ELSE v
    IN IF IsBound(userSettings, ResourcePodMaximum, res)
          /\ FGt(raised, GetValue(userSettings, ResourcePodMaximum, res))
       THEN GetValue(userSettings, ResourcePodMaximum, res) ELSE raised

\* ClampRequestsAndLimits: requests and limits clamped to the user's bounds
ClampRequestsAndLimits(rp, userSettings) ==
    [k \in DOMAIN rp |->
        IF k[1] \in {ResourceLimits, ResourceRequests}
        THEN [rp[k] EXCEPT !.value = ClampValue(rp[k].value, userSettings, k[2])]
        ELSE rp[k]]

\* supportedAnnotations: annotation key -> the binding it configures
supportedAnnotations ==
    ("node-specific-sizing.manomano.tech/request-cpu-fraction" :>
        [resourceKind |-> ResourceFraction, resourceProp |-> ResourceRequests, resourceName |-> ResourceCPU])
 @@ ("node-specific-sizing.manomano.tech/request-memory-fraction" :>
        [resourceKind |-> ResourceFraction, resourceProp |-> ResourceRequests, resourceName |-> ResourceMemory])
 @@ ("node-specific-sizing.manomano.tech/limit-cpu-fraction" :>
        [resourceKind |-> ResourceFraction, resourceProp |-> ResourceLimits, resourceName |-> ResourceCPU])
 @@ ("node-specific-sizing.manomano.tech/limit-memory-fraction" :>
        [resourceKind |-> ResourceFraction, resourceProp |-> ResourceLimits, resourceName |-> ResourceMemory])
 @@ ("node-specific-sizing.manomano.tech/minimum-cpu" :>
        [resourceKind |-> ResourceQuantity, resourceProp |-> ResourcePodMinimum, resourceName |-> ResourceCPU])
 @@ ("node-specific-sizing.manomano.tech/minimum-memory" :>
        [resourceKind |-> ResourceQuantity, resourceProp |-> ResourcePodMinimum, resourceName |-> ResourceMemory])
 @@ ("node-specific-sizing.manomano.tech/maximum-cpu" :>
        [resourceKind |-> ResourceQuantity, resourceProp |-> ResourcePodMaximum, resourceName |-> ResourceCPU])
 @@ ("node-specific-sizing.manomano.tech/maximum-memory" :>
        [resourceKind |-> ResourceQuantity, resourceProp |-> ResourcePodMaximum, resourceName |-> ResourceMemory])

\* the supported annotations the pod carries
PresentSupported(annotations) == DOMAIN supportedAnnotations \cap DOMAIN annotations

\* does the supported annotation key parse?
AnnotationParses(annotations, key) ==
    IF supportedAnnotations[key].resourceKind = ResourceFraction
    THEN parseFraction(annotations[key]).ok
    ELSE parseQuantity(annotations[key]).ok

\* the property set NewFromAnnotations builds from the annotations in keys
RECURSIVE BindAnnotations(_, _)
BindAnnotations(annotations, keys) ==
    IF keys = {} THEN New
    ELSE LET key == CHOOSE k \in keys : TRUE
             sb == supportedAnnotations[key]
         IN BindPropertyString(BindAnnotations(annotations, keys \ {key}),
                               sb.resourceKind, sb.resourceProp, sb.resourceName,
                               annotations[key]).props

\* NewFromAnnotations walks supportedAnnotations in Go's unspecified map order
\* and returns at the first value that does not parse: the outcomes are one
\* error per malformed annotation (whichever the walk meets first), or the
\* property set when every present annotation parses.
\* [err, props]; err.msg = "" is Go's nil error.
NoError == [msg |-> "", inner |-> "", text |-> <<>>]

Error(msg, inner, text) == [msg |-> msg, inner |-> inner, text |-> text]

IsError(err) == err.msg # ""

NewFromAnnotationsOutcomes(annotations) ==
    LET bad == {k \in PresentSupported(annotations) : ~AnnotationParses(annotations, k)}
    IN IF bad = {}
       THEN {[err |-> NoError,
              props |-> BindAnnotations(annotations, PresentSupported(annotations))]}
       ELSE {[err |-> Error("cannot be parsed",
                            supportedAnnotations[k].resourceKind, annotations[k]),
              props |-> New] : k \in bad}


(***************************************************************************)
(* Rendering of bindings.                                                  *)
(***************************************************************************)
MilliThreshold == 10000
MilliPerUnit == 1000
ExponentStep == 3

\* the number of decimal digits of a positive integer
RECURSIVE NumDigits(_)
NumDigits(n) == IF n < 10 THEN 1 ELSE 1 + NumDigits(n \div 10)

\* the least k >= 0 with x * 10^k >= 1, for a finite x in (0, 1)
RECURSIVE ShiftsToOne(_)
ShiftsToOne(x) == IF x[1] >= x[2] THEN 0 ELSE 1 + ShiftsToOne(Rat(x[1] * 10, x[2]))

\* int(math.Trunc(math.Log(n) / math.Log(10))) of a finite n > 0
TruncLog10(n) ==
    IF n[1] >= n[2] THEN NumDigits(Floor(n)) - 1
    ELSE LET k == ShiftsToOne(n)
         IN IF Rat(n[1] * Pow10(k), n[2]) = One THEN -k ELSE -(k - 1)

\* Go's integer division, which truncates toward zero
GoDiv(a, b) == Sign(a) * Sign(b) * (Abs(a) \div Abs(b))

\* the exponent as it is before it is brought down to a multiple of 3
truncatedExponent(n) ==
    IF n[1] = 0 THEN 0 ELSE TruncLog10(n)

\* appropriateIntegerExponent(n, 10.0) of a finite n >= 0
appropriateIntegerExponent(n) ==
    IF n[1] = 0 THEN 0 ELSE GoDiv(TruncLog10(n), ExponentStep) * ExponentStep

\* the DecimalSI suffixes of the scales -3, 0, 3, 6, 9 (the amounts of this
\* model stay below 2^31, so the suffixes T, P and E are never reached)
SISuffixes == << <<"m">>, <<>>, <<"k">>, <<"M">>, <<"G">> >>

DigitChar(d) == CHOOSE c \in Digits : DigitValue(c) = d

\* the decimal digits of a natural number, as a text
RECURSIVE NatText(_)
NatText(n) ==
    IF n < 10 THEN <<DigitChar(n)>>
    ELSE Append(NatText(n \div 10), DigitChar(n % 10))

IntText(n) == IF n < 0 THEN <<"-">> \o NatText(-n) ELSE NatText(n)

\* a text as the string it spells
RECURSIVE Join(_)
Join(t) == IF Len(t) = 0 THEN "" ELSE t[1] \o Join(Tail(t))

\* the canonical form of mantissa * 10^scale (scale a multiple of 3): whole
\* thousands of the mantissa move into the scale
RECURSIVE Canonical(_, _)
Canonical(mantissa, scale) ==
    IF mantissa # 0 /\ mantissa % Pow10(ExponentStep) = 0
    THEN Canonical(mantissa \div Pow10(ExponentStep), scale + ExponentStep)
    ELSE [mantissa |-> mantissa, scale |-> scale]

\* resource.Quantity.String() in DecimalSI of mantissa * 10^scale, as a text:
\* the canonical form has an integer mantissa and the largest suffix that
\* loses nothing (2000m prints 2, 1500m prints 1500m, 840 * 10^6 prints 840M)
QuantityText(mantissa, scale) ==
    IF mantissa = 0 THEN <<"0">>
    ELSE LET c == Canonical(mantissa, scale)
         IN IntText(c.mantissa) \o SISuffixes[(c.scale \div ExponentStep) + 2]

\* the same for an amount of milli thousandths, as a string
QuantityString(milli) == Join(QuantityText(milli, -ExponentStep))

\* the first digits of the fractional part num/den (num < den), without
\* trailing zeros, as FormatFloat(v, 'f', -1, 64) prints them
RECURSIVE FractionDigits(_, _, _)
FractionDigits(num, den, left) ==
    IF num = 0 \/ left = 0 THEN ""
    ELSE ToString((num * 10) \div den) \o FractionDigits((num * 10) % den, den, left - 1)

FloatDigits == 16

\* strconv.FormatFloat(v, 'f', -1, 64) of a finite v
FormatFloat(v) ==
    LET a == <<Abs(v[1]), v[2]>>
        frac == FractionDigits(a[1] % a[2], a[2], FloatDigits)
    IN (IF v[1] < 0 THEN "-" ELSE "") \o ToString(a[1] \div a[2])
       \o (IF frac = "" THEN "" ELSE "." \o frac)

\* What int64(x) is rendered as when x is NaN or infinite: Go leaves the
\* result of such a conversion to the implementation (amd64 gives the least
\* int64, arm64 gives 0 for NaN), so the build decides which.
ImplementationDefinedQuantities == {"0", "-9223372036854775808m"}

\* the int64 and the scale HumanValue hands to resource.NewScaledQuantity or
\* resource.NewMilliQuantity for a finite quantity: above 10 (value * 1000 >
\* 10_000, decided on the value so that the product is formed only when it
\* is small), the value cut to a whole number of 10^scale; else the whole
\* thousandths
HumanScaled(b) ==
    IF FGt(b.value, Rat(MilliThreshold, MilliPerUnit))
    THEN LET scale == appropriateIntegerExponent(b.value)
             exp == Pow10(scale)
         IN [mantissa |-> Floor(FDiv(b.value, FromInt(exp))), scale |-> scale]
    ELSE [mantissa |-> Trunc(FMul(b.value, FromInt(MilliPerUnit))),
          scale |-> -ExponentStep]

\* the thousandths HumanValue renders a finite quantity as
HumanMilli(b) ==
    LET q == HumanScaled(b)
    IN q.mantissa * Pow10(q.scale + ExponentStep)

\* HumanValue of a finite quantity, as a text
HumanText(b) ==
    LET q == HumanScaled(b)
    IN QuantityText(q.mantissa, q.scale)

\* HumanValue: the binding's value as text.  impl is the rendering of an
\* implementation-defined conversion, used only when the value is not finite.
HumanValue(b, impl) ==
    IF b.resourceKind = ResourceFraction
    THEN (IF IsNaN(b.value) THEN "NaN"
          ELSE IF IsInf(b.value) THEN (IF b.value[1] > 0 THEN "+Inf" ELSE "-Inf")
          ELSE FormatFloat(b.value))
    ELSE IF ~IsFinite(b.value) THEN impl
    ELSE Join(HumanText(b))

\* a JSON pointer that counts the containers from 1
PropertyJsonPathFromOne(b, containerIndex) ==
    "/spec/containers/" \o ToString(containerIndex + 1) \o "/resources/"
        \o b.resourceProp \o "/" \o b.resourceName

\* PropertyJsonPath: the JSON pointer of the binding in container containerIndex
PropertyJsonPath(b, containerIndex) ==
    "/spec/containers/" \o ToString(containerIndex) \o "/resources/"
        \o b.resourceProp \o "/" \o b.resourceName


(***************************************************************************)
(* The patch pipeline (src/unnamed/part_004).                              *)
(*                                                                         *)
(* A pod is [annotations, containers, affinity, nodeName]; a container is  *)
(* [name, requests, limits], requests and limits being functions from the  *)
(* declared resource names to values (resource.Quantity read through       *)
(* AsApproximateFloat64).  A node is [capacity, allocatable].              *)
(***************************************************************************)

\* is prop.res declared by the container's ResourceRequirements?
Declares(ctn, prop, res) ==
    \/ prop = ResourceRequests /\ res \in DOMAIN ctn.requests
    \/ prop = ResourceLimits /\ res \in DOMAIN ctn.limits

DeclaredValue(ctn, prop, res) ==
    IF prop = ResourceRequests THEN ctn.requests[res] ELSE ctn.limits[res]

\* AddResourceRequirements: binds the container's requests and limits as quantities
AddResourceRequirements(rp, ctn) ==
    [k \in DOMAIN rp \cup {j \in {ResourceRequests, ResourceLimits} \X ResourceNames :
                              Declares(ctn, j[1], j[2])} |->
        IF Declares(ctn, k[1], k[2])
        THEN BindPropertyFloat(rp, ResourceQuantity, k[1], k[2],
                               DeclaredValue(ctn, k[1], k[2]))[k]
        ELSE rp[k]]

ContainerNames(pod) == {pod.containers[i].name : i \in 1..Len(pod.containers)}

\* containerResources[name]: the map is keyed by container name, so of two
\* containers of one name the later one's resources stay
containerResources(pod, name) ==
    LET last == CHOOSE i \in 1..Len(pod.containers) :
                    /\ pod.containers[i].name = name
                    /\ \A j \in (i + 1)..Len(pod.containers) : pod.containers[j].name # name
    IN AddResourceRequirements(New, pod.containers[last])

\* totalAbsoluteResourcesRequirements: every container of the list is added
RECURSIVE totalAbsoluteResourcesRequirements(_, _)
totalAbsoluteResourcesRequirements(pod, n) ==
    IF n = 0 THEN New
    ELSE Add(totalAbsoluteResourcesRequirements(pod, n - 1),
             AddResourceRequirements(New, pod.containers[n]))

\* computeProportionalResourceRequirements: container name -> shares
computeProportionalResourceRequirements(pod) ==
    [name \in ContainerNames(pod) |->
        Div(containerResources(pod, name),
            totalAbsoluteResourcesRequirements(pod, Len(pod.containers)))]

\* computePodResourceBudget: one binding per binding of fractions whose
\* resource the node's Status.Capacity reports, valued capacity * value.
\* (part_004 calls BindPropertyFloat(prop, res, value); the budget is an
\* absolute amount, bound here as a quantity.)
computePodResourceBudget(fractions, node) ==
    [k \in {j \in DOMAIN fractions : j[2] \in DOMAIN node.capacity} |->
        NewBinding(ResourceQuantity, k[1], k[2],
                   FMul(node.capacity[k[2]], fractions[k].value))]

\* computePodContainerResourceBudget: shares * budget, then ForceLimitAboveRequest
computePodContainerResourceBudget(containersProportionalResourceRequirements, podResourceBudget) ==
    [name \in DOMAIN containersProportionalResourceRequirements |->
        ForceLimitAboveRequest(
            Mul(containersProportionalResourceRequirements[name], podResourceBudget))]

\* the matchFields of all nodeSelectorTerms, in the order the loops visit them
RECURSIVE AllMatchFields(_)
AllMatchFields(terms) ==
    IF Len(terms) = 0 THEN <<>>
    ELSE Head(terms).matchFields \o AllMatchFields(Tail(terms))

NodeSelectorOpIn == "In"

\* getNodeName: [err, name]
getNodeName(pod) ==
    LET a == pod.affinity
        mfs == AllMatchFields(a.nodeSelectorTerms)
        hits == {i \in 1..Len(mfs) :
                    mfs[i].key = "metadata.name" /\ mfs[i].operator = NodeSelectorOpIn}
        first == CHOOSE i \in hits : \A j \in hits : i <= j
    IN IF ~a.hasAffinity
       THEN [err |-> Error("problem getting node name", "pod does not have affinity", <<>>), name |-> ""]
       ELSE IF ~a.hasNodeAffinity
       THEN [err |-> Error("problem getting node name", "pod does not have affinity.NodeAffinity", <<>>), name |-> ""]
       ELSE IF ~a.hasRequired
       THEN [err |-> Error("problem getting node name", "pod does not have RequiredDuringSchedulingIgnoredDuringExecution", <<>>), name |-> ""]
       ELSE IF Len(a.nodeSelectorTerms) = 0
       THEN [err |-> Error("problem getting node name", "pod has no terms", <<>>), name |-> ""]
       ELSE IF hits = {}
       THEN [err |-> Error("problem getting node name", "no appropriate matchfield for node name extraction", <<>>), name |-> ""]
       ELSE IF Len(mfs[first].values) = 1
       THEN [err |-> NoError, name |-> mfs[first].values[1]]
       ELSE [err |-> Error("problem getting node name", "pod has more than one matching field", <<>>), name |-> ""]

\* a patchOperation
patchOperation(op, path, value) == [Op |-> op, Path |-> path, Value |-> value]

\* does no other role come between two bindings of one role?  All() walks the
\* roles one after the other, each role's resources one after the other
GroupedByProp(s) ==
    \A i, j, k \in 1..Len(s) :
        (i < j /\ j < k /\ s[i].resourceProp = s[k].resourceProp)
            => s[j].resourceProp = s[i].resourceProp

\* the orders in which All() can yield the bindings of rp
AllOrders(rp) ==
    {s \in [1..Cardinality(DOMAIN rp) -> All(rp)] :
        /\ \A b \in All(rp) : \E i \in 1..Len(s) : s[i] = b
        /\ GroupedByProp(s)}

\* replace operations that write every binding at the first container's path
ReplaceOperationsAtFirst(order, i, impl) ==
    [n \in 1..Len(order) |->
        patchOperation("replace", PropertyJsonPath(order[n], 0), HumanValue(order[n], impl))]

\* the replace operations of container i (0-based index) for one such order
ReplaceOperations(order, i, impl) ==
    [n \in 1..Len(order) |->
        patchOperation("replace", PropertyJsonPath(order[n], i), HumanValue(order[n], impl))]

\* the patches the loop over pod.Spec.Containers can build from container
\* number from (1-based) on: containers in pod order, bindings in any All() order
RECURSIVE ReplacePatches(_, _, _, _)
ReplacePatches(pod, containersResourceBudget, from, impl) ==
    IF from > Len(pod.containers) THEN {<<>>}
    ELSE {ReplaceOperations(order, from - 1, impl) \o rest :
            order \in AllOrders(containersResourceBudget[pod.containers[from].name]),
            rest \in ReplacePatches(pod, containersResourceBudget, from + 1, impl)}

StatusAnnotationPath == "/metadata/annotations/node-specific-sizing.manomano.tech~1status"

\* a status operation appended to every patch, empty or not
WithStatusAlways(patch) ==
    Append(patch, patchOperation("add", StatusAnnotationPath,
                                 "patch_count=" \o ToString(Len(patch))))

\* the status operation appended to a patch that is not empty
WithStatus(patch) ==
    IF Len(patch) > 0
    THEN Append(patch, patchOperation("add", StatusAnnotationPath,
                                      "patch_count=" \o ToString(Len(patch))))
    ELSE patch

\* json.Marshal(patch): a nil slice marshals to the four bytes null
Marshal(patch) ==
    IF Len(patch) = 0 THEN [bytes |-> "null", ops |-> <<>>]
    ELSE [bytes |-> "array", ops |-> patch]

NoBytes == [bytes |-> "", ops |-> <<>>]

\* what a run of createPatch leaves: its result (patchBytes, err) and the
\* values of its locals (New / empty where the run returned before them);
\* listCalls counts the calls of globalClient.List, nodeByName holds the
\* names of the map built from the listed nodes
PatchRun(patchBytes, err, fractions, listCalls, nodeByName, shares, nodeName, budget, ctnBudget) ==
    [patchBytes |-> patchBytes, err |-> err, fractions |-> fractions,
     listCalls |-> listCalls, nodeByName |-> nodeByName,
     containersProportionalRequirements |-> shares, nodeName |-> nodeName,
     podResourceBudget |-> budget, containersResourceBudget |-> ctnBudget]

\* a Node without status: what Go's map index yields for a missing key
ZeroNode == [capacity |-> <<>>, allocatable |-> <<>>]

\* a lookup that drops the ok of the map index and goes on with the zero Node
lookupNodeUnchecked(nodeByName, nodeName) ==
    [ok |-> TRUE,
     node |-> IF nodeName \in DOMAIN nodeByName THEN nodeByName[nodeName] ELSE ZeroNode]

\* node, ok := nodeByName[nodeName]
lookupNode(nodeByName, nodeName) ==
    IF nodeName \in DOMAIN nodeByName
    THEN [ok |-> TRUE, node |-> nodeByName[nodeName]]
    ELSE [ok |-> FALSE, node |-> ZeroNode]

\* createPatch: the runs it can make for a pod, given the node cache
\* (synced: can globalClient.List answer; nodes: name -> node).  A run is
\* decided by the pod and the cache, up to the order in which Go walks its
\* maps and the build's implementation-defined conversions.
createPatch(pod, synced, nodes) ==
    UNION {
        IF IsError(parsed.err)
        THEN {PatchRun(NoBytes,
                       Error("problem parsing annotations", parsed.err.inner, parsed.err.text),
                       New, 0, {}, <<>>, "", New, <<>>)}
        ELSE IF ~synced
        THEN {PatchRun(NoBytes, Error("problem fetching node data", "", <<>>),
                       parsed.props, 1, {}, <<>>, "", New, <<>>)}
        ELSE LET shares == computeProportionalResourceRequirements(pod)
                 named == getNodeName(pod)
                 found == lookupNode(nodes, named.name)
             IN IF IsError(named.err)
                THEN {PatchRun(NoBytes, named.err, parsed.props, 1, DOMAIN nodes,
                               shares, "", New, <<>>)}
                ELSE IF ~found.ok
                THEN {PatchRun(NoBytes, Error("cannot find data for node", pod.nodeName, <<>>),
                               parsed.props, 1, DOMAIN nodes, shares, named.name, New, <<>>)}
                ELSE LET budget == computePodResourceBudget(parsed.props, found.node)
                         ctnBudget == computePodContainerResourceBudget(shares, budget)
                     IN {PatchRun(Marshal(WithStatus(replaces)), NoError, parsed.props,
                                  1, DOMAIN nodes, shares, named.name, budget, ctnBudget) :
                            replaces \in UNION {ReplacePatches(pod, ctnBudget, 1, impl) :
                                                  impl \in ImplementationDefinedQuantities}}
        : parsed \in NewFromAnnotationsOutcomes(pod.annotations)}

(***************************************************************************)
(* The transport handlers (src/cmd/webhook.go).                            *)
(*                                                                         *)
(* A request is [body, contentType, uid, podDecodes, pod]: body is "" (no  *)
(* body), "garbage" (not an AdmissionReview), "review-without-request" or  *)
(* "review"; podDecodes tells whether Request.Object.Raw unmarshals.       *)
(***************************************************************************)
AdmissionResponse(allowed, patch, patchType, result) ==
    [Allowed |-> allowed, Patch |-> patch, PatchType |-> patchType,
     Result |-> result, UID |-> ""]

NoResponse == AdmissionResponse(FALSE, NoBytes, "", NoError)

NoRun == PatchRun(NoBytes, NoError, New, 0, {}, <<>>, "", New, <<>>)

\* a mutate that allows the pod, without a patch, when createPatch fails
mutateAllowingFailures(req, run) ==
    IF ~req.podDecodes
    THEN AdmissionResponse(FALSE, NoBytes, "", Error("unmarshal", "", <<>>))
    ELSE IF IsError(run.err)
    THEN AdmissionResponse(TRUE, NoBytes, "", run.err)
    ELSE AdmissionResponse(TRUE, run.patchBytes, "JSONPatch", NoError)

\* mutate, given the run createPatch makes: the AdmissionResponse
mutate(req, run) ==
    IF ~req.podDecodes
    THEN AdmissionResponse(FALSE, NoBytes, "", Error("unmarshal", "", <<>>))
    ELSE IF IsError(run.err)
    THEN AdmissionResponse(FALSE, NoBytes, "", run.err)
    ELSE AdmissionResponse(TRUE, run.patchBytes, "JSONPatch", NoError)

StatusBadRequest == 400
StatusUnsupportedMediaType == 415
StatusOK == 200
\* no HTTP status: the handler panicked and net/http dropped the connection
StatusNone == 0

\* serve, given the run createPatch makes when it is called:
\* [status, review (the AdmissionResponse written), run (createPatch's run, if any)]
serve(req, run) ==
    IF req.body = ""
    THEN [status |-> StatusBadRequest, review |-> NoResponse, run |-> NoRun]
    ELSE IF req.contentType # "application/json"
    THEN [status |-> StatusUnsupportedMediaType, review |-> NoResponse, run |-> NoRun]
    ELSE IF req.body = "garbage"
    THEN [status |-> StatusOK,
          review |-> AdmissionResponse(FALSE, NoBytes, "", Error("decode", "", <<>>)),
          run |-> NoRun]
    ELSE IF req.body = "review-without-request"
    THEN [status |-> StatusNone, review |-> NoResponse, run |-> NoRun]
    ELSE [status |-> StatusOK,
          review |-> [mutate(req, run) EXCEPT !.UID = req.uid],
          run |-> IF req.podDecodes THEN run ELSE NoRun]

\* failurePolicy: Ignore.  What the API server does with the webhook's answer:
\* a call that fails (no 200 answer, or a response whose uid is not the
\* request's) is ignored and the pod admitted as submitted; a response that
\* is not allowed rejects the pod; an allowed one admits it with the patch.
ApiServerDecision(req, answer) ==
    IF answer.status # StatusOK \/ answer.review.UID # req.uid
    THEN "admitted-unchanged"
    ELSE IF ~answer.review.Allowed THEN "rejected"
    ELSE IF Len(answer.review.Patch.ops) = 0 THEN "admitted-unchanged"
    ELSE "admitted-patched"


(***************************************************************************)
(* The cluster and the admission requests the model draws from.            *)
(***************************************************************************)
\* the nodes of the cluster: n1 reports cpu and memory, n2 (just registered,
\* its status not yet complete) reports cpu only, n3 has 4 cpu and 8Mi of
\* memory (8388608 bytes)
ClusterNodes ==
    ("n1" :> [capacity |-> (ResourceCPU :> FromInt(4)) @@ (ResourceMemory :> FromInt(8000)),
              allocatable |-> (ResourceCPU :> FromInt(3)) @@ (ResourceMemory :> FromInt(7000))])
 @@ ("n2" :> [capacity |-> (ResourceCPU :> FromInt(2)),
              allocatable |-> (ResourceCPU :> FromInt(2))])
 @@ ("n3" :> [capacity |-> (ResourceCPU :> FromInt(4)) @@ (ResourceMemory :> FromInt(8388608)),
              allocatable |-> (ResourceCPU :> FromInt(4)) @@ (ResourceMemory :> FromInt(8388608))])

NodeNames == DOMAIN ClusterNodes

\* n1 joins and leaves the cluster while the webhook runs; n2 stays
JoiningNodes == {"n1"}
StableNodes == NodeNames \ JoiningNodes

NoResources == <<>>

Container(name, requests, limits) == [name |-> name, requests |-> requests, limits |-> limits]

\* the containers pods are made of: no resources at all, a cpu request of
\* zero, a cpu request, requests and limits together; some of them named alike
Containers ==
    { Container("a", NoResources, NoResources),
      Container("a", (ResourceCPU :> Zero), NoResources),
      Container("a", (ResourceCPU :> Rat(3, 10)) @@ (ResourceMemory :> FromInt(300)),
                     (ResourceCPU :> Rat(1, 2))),
      Container("c", (ResourceCPU :> Rat(3, 10)), NoResources),
      Container("b", (ResourceCPU :> Rat(1, 10)) @@ (ResourceMemory :> FromInt(100)),
                     (ResourceCPU :> Rat(1, 5))) }

SeqsUpTo(S, n) == UNION {[1..k -> S] : k \in 0..n}

MatchField(key, operator, values) == [key |-> key, operator |-> operator, values |-> values]

\* the matchFields lists of a nodeSelectorTerm
TermShapes ==
    { <<>>,
      <<MatchField("metadata.name", "In", <<"n1">>)>>,
      <<MatchField("metadata.name", "In", <<"n2">>)>>,
      <<MatchField("metadata.name", "In", <<>>)>>,
      <<MatchField("metadata.name", "In", <<"n1", "n2">>)>>,
      <<MatchField("metadata.name", "NotIn", <<"n1">>)>>,
      <<MatchField("metadata.namespace", "In", <<"n1">>),
        MatchField("metadata.name", "In", <<"n1">>)>> }

Affinity(hasAffinity, hasNodeAffinity, hasRequired, terms) ==
    [hasAffinity |-> hasAffinity, hasNodeAffinity |-> hasNodeAffinity,
     hasRequired |-> hasRequired, nodeSelectorTerms |-> terms]

\* the exact shape the webhook documents: one term, one matchFields entry, one value
Pinned(n) ==
    Affinity(TRUE, TRUE, TRUE,
             <<[matchFields |-> <<MatchField("metadata.name", "In", <<n>>)>>]>>)

AffinityShapes ==
    { Affinity(FALSE, FALSE, FALSE, <<>>),
      Affinity(TRUE, FALSE, FALSE, <<>>),
      Affinity(TRUE, TRUE, FALSE, <<>>) }
    \cup {Affinity(TRUE, TRUE, TRUE, [i \in 1..Len(ts) |-> [matchFields |-> ts[i]]]) :
            ts \in SeqsUpTo(TermShapes, MaxTerms)}

RequestCpuFraction == "node-specific-sizing.manomano.tech/request-cpu-fraction"
RequestMemoryFraction == "node-specific-sizing.manomano.tech/request-memory-fraction"
LimitCpuFraction == "node-specific-sizing.manomano.tech/limit-cpu-fraction"
LimitMemoryFraction == "node-specific-sizing.manomano.tech/limit-memory-fraction"
MinimumCpu == "node-specific-sizing.manomano.tech/minimum-cpu"
MaximumMemory == "node-specific-sizing.manomano.tech/maximum-memory"
ExcludeContainers == "node-specific-sizing.manomano.tech/exclude-containers"

\* the annotation maps that give each key of choices one of its texts, or omit it
RECURSIVE AnnotationMaps(_)
AnnotationMaps(choices) ==
    IF DOMAIN choices = {} THEN {<<>>}
    ELSE LET key == CHOOSE k \in DOMAIN choices : TRUE
             rest == AnnotationMaps([k \in DOMAIN choices \ {key} |-> choices[k]])
         IN rest \cup {(key :> t) @@ m : t \in choices[key], m \in rest}

Pod(annotations, containers, affinity) ==
    [annotations |-> annotations, containers |-> containers, affinity |-> affinity,
     nodeName |-> ""]

TwoContainers ==
    << Container("a", (ResourceCPU :> Rat(1, 10)) @@ (ResourceMemory :> FromInt(100)), NoResources),
       Container("b", (ResourceCPU :> Rat(3, 10)) @@ (ResourceMemory :> FromInt(900)),
                      (ResourceCPU :> Rat(3, 10))) >>

\* pods that differ in their containers, with well-formed fractions
PodsSizing ==
    {Pod(m @@ (RequestCpuFraction :> <<"0", ".", "1">>), cs, Pinned("n1")) :
        m \in AnnotationMaps(
                (LimitCpuFraction :> {<<"0", ".", "1">>})
             @@ (RequestMemoryFraction :> {<<"0", ".", "1">>})),
        cs \in SeqsUpTo(Containers, MaxContainers)}

\* pods that differ in their annotation texts, well-formed or not
PodsAnnotations ==
    {Pod(m, TwoContainers, Pinned("n1")) :
        m \in AnnotationMaps(
                (RequestCpuFraction :> {<<"0", ".", "1">>, <<"1">>, <<"0">>,
                                        <<"1", ".", "5">>, <<"x">>, <<"N", "a", "N">>})
             @@ (LimitCpuFraction :> {<<"0", ".", "5">>, <<"2">>})
             @@ (MinimumCpu :> {<<"0", ".", "5">>, <<"5", "0", "0", "m">>, <<"b">>}))}

\* pods that name containers to exclude, or bound the pod's memory
PodsExclusion ==
    {Pod(m @@ (RequestCpuFraction :> <<"0", ".", "1">>), cs, Pinned("n1")) :
        m \in AnnotationMaps(
                (ExcludeContainers :> {<<"a">>, <<"b">>, <<"a", ",", "b">>})
             @@ (RequestMemoryFraction :> {<<"0", ".", "1">>})
             @@ (MaximumMemory :> {<<"5", "0", "0">>})),
        cs \in {TwoContainers, SubSeq(TwoContainers, 1, 1)}}

\* pods that differ in the shape of their node affinity
PodsAffinity ==
    {Pod((RequestCpuFraction :> <<"0", ".", "1">>) @@ (RequestMemoryFraction :> <<"0", ".", "1">>),
         TwoContainers, a) : a \in AffinityShapes}

\* two containers asking 100m cpu, 100Ki memory and 300m cpu, 900Ki memory,
\* sized to a tenth of n3
ScenarioPod ==
    Pod((RequestCpuFraction :> <<"0", ".", "1">>) @@ (RequestMemoryFraction :> <<"0", ".", "1">>),
        << Container("C1", (ResourceCPU :> Rat(1, 10)) @@ (ResourceMemory :> FromInt(102400)),
                           NoResources),
           Container("C2", (ResourceCPU :> Rat(3, 10)) @@ (ResourceMemory :> FromInt(921600)),
                           NoResources) >>,
        Pinned("n3"))

\* one container that requests no cpu (a request of 0) under a cpu limit
BestEffortCpuPod ==
    Pod((RequestCpuFraction :> <<"0", ".", "1">>) @@ (LimitCpuFraction :> <<"0", ".", "5">>),
        << Container("a", (ResourceCPU :> Zero), (ResourceCPU :> Rat(1, 2))) >>,
        Pinned("n1"))

PodsScenarios == {ScenarioPod, BestEffortCpuPod}

Pods == PodsSizing \cup PodsAnnotations \cup PodsExclusion \cup PodsAffinity \cup PodsScenarios

SimplePod == Pod((RequestCpuFraction :> <<"0", ".", "1">>), TwoContainers, Pinned("n1"))

Request(body, contentType, uid, podDecodes, pod) ==
    [body |-> body, contentType |-> contentType, uid |-> uid,
     podDecodes |-> podDecodes, pod |-> pod]

\* requests that differ in what the transport sees
TransportRequests ==
    {Request(body, ct, uid, dec, SimplePod) :
        body \in {"", "garbage", "review-without-request", "review"},
        ct \in {"application/json", "text/plain"},
        uid \in {"u1", "u2"},
        dec \in BOOLEAN}

Requests ==
    TransportRequests \cup {Request("review", "application/json", "u1", TRUE, pod) : pod \in Pods}

(***************************************************************************)
(* The state machine: the node cache kept warm in the background, and the  *)
(* webhook serving one admission request at a time.                        *)
(***************************************************************************)
VARIABLES
    cacheSynced,   \* has the node cache synced (globalClient.List can answer)
    nodes,         \* the node snapshot of the cache: node name -> node
    pc,            \* "idle", "responded" (serve has answered), "decided"
    request,       \* the request being served
    answer,        \* what serve wrote: [status, review, run]
    admission,     \* the API server's decision on the pod
    handlers,      \* the handler goroutines that serve requests side by side:
                   \* handler -> [pc, req, locals (of its createPatch), response]
    algebra        \* property sets worked on through the package's operations:
                   \* [heap, sets, trace, last]

vars == <<cacheSynced, nodes, pc, request, answer, admission, handlers, algebra>>

NoRequest == Request("", "", "", FALSE, Pod(<<>>, <<>>, Affinity(FALSE, FALSE, FALSE, <<>>)))

NoAnswer == [status |-> StatusNone, review |-> NoResponse, run |-> NoRun]

\* net/http runs serve in one goroutine per connection
Handlers == {"h1", "h2"}

\* the locals of a call of createPatch: the nodes it listed, and the rest (run)
NoLocals == [listed |-> <<>>, run |-> NoRun]

\* a handler: where it stands (pc), its request, the locals of its
\* createPatch, its response
IdleHandler ==
    [pc |-> "idle", req |-> NoRequest, locals |-> NoLocals, response |-> NoAnswer]

\* the slots property sets are held in: the receiver of the operations, their
\* operand, and the result of the last Mul or Div
Slots == {"rp", "operand", "result"}

\* no operation of the package made on its own
NoOperation ==
    [op |-> "", receiver |-> "", operand |-> "", before |-> [s \in Slots |-> <<>>],
     panicked |-> FALSE, binding |-> <<>>, text |-> ""]

\* no binding allocated, no property set bound
NoAlgebra ==
    [heap |-> <<>>, sets |-> [s \in Slots |-> <<>>], trace |-> <<>>, last |-> NoOperation]

Init ==
    /\ cacheSynced = FALSE
    /\ nodes = <<>>
    /\ pc = "idle"
    /\ request = NoRequest
    /\ answer = NoAnswer
    /\ admission = ""
    /\ handlers = [h \in Handlers |-> IdleHandler]
    /\ algebra = NoAlgebra

\* ourCache.Start: the informer cache finishes its first list of the nodes
CacheSync ==
    /\ ~cacheSynced
    /\ cacheSynced' = TRUE
    /\ nodes' \in {[n \in StableNodes \cup S |-> ClusterNodes[n]] : S \in SUBSET JoiningNodes}
    /\ UNCHANGED <<algebra, handlers, pc, request, answer, admission>>

\* the watch delivers a node that joined the cluster
NodeAdded(n) ==
    /\ cacheSynced
    /\ n \notin DOMAIN nodes
    /\ nodes' = (n :> ClusterNodes[n]) @@ nodes
    /\ UNCHANGED <<algebra, handlers, cacheSynced, pc, request, answer, admission>>

\* the watch delivers the deletion of a node
NodeDeleted(n) ==
    /\ cacheSynced
    /\ n \in DOMAIN nodes
    /\ nodes' = [m \in DOMAIN nodes \ {n} |-> nodes[m]]
    /\ UNCHANGED <<algebra, handlers, cacheSynced, pc, request, answer, admission>>

\* serve: the whole handler on one request, mutate and createPatch included
Serve(req) ==
    /\ pc = "idle"
    /\ \E run \in createPatch(req.pod, cacheSynced, nodes) :
         answer' = serve(req, run)
    /\ request' = req
    /\ admission' = ""
    /\ pc' = "responded"
    /\ UNCHANGED <<algebra, handlers, cacheSynced, nodes>>

\* the API server acts on the webhook's answer
ApiServerDecides ==
    /\ pc = "responded"
    /\ admission' = ApiServerDecision(request, answer)
    /\ pc' = "decided"
    /\ UNCHANGED <<algebra, handlers, cacheSynced, nodes, request, answer>>

\* the request is over; nothing of it is kept
Finish ==
    /\ pc = "decided"
    /\ pc' = "idle"
    /\ request' = NoRequest
    /\ answer' = NoAnswer
    /\ admission' = ""
    /\ UNCHANGED <<algebra, handlers, cacheSynced, nodes>>

Next ==
    \/ CacheSync
    \/ \E n \in JoiningNodes : NodeAdded(n)
    \/ \E n \in JoiningNodes : NodeDeleted(n)
    \/ \E req \in Requests : Serve(req)
    \/ ApiServerDecides
    \/ Finish

Spec == Init /\ [][Next]_vars

(***************************************************************************)
(* Requests served side by side.  Each handler goroutine runs serve,       *)
(* mutate and createPatch statement by statement on its own locals; the    *)
(* node cache is the one thing they share, and here it does not change.    *)
(***************************************************************************)
\* does serve get as far as createPatch for the request?
ReachesCreatePatch(req) ==
    /\ req.body = "review"
    /\ req.contentType = "application/json"
    /\ req.podDecodes

\* locals kept in one place for all the calls, the first handler's
SharedFrame(hs, h) == hs["h1"].locals

\* the locals of handler h's call of createPatch: every call declares its
\* own (patch, fractions, nodes, nodeByName, ...)
Frame(hs, h) == hs[h].locals

\* the requests that arrive side by side
ConcurrentRequests ==
    { Request("review", "application/json", "u1", TRUE, SimplePod),
      Request("review", "application/json", "u2", TRUE, BestEffortCpuPod),
      Request("review", "application/json", "u3", TRUE,
              Pod((RequestCpuFraction :> <<"x">>) @@ (LimitCpuFraction :> <<"2">>),
                  TwoContainers, Pinned("n1"))),
      Request("review", "application/json", "u4", TRUE,
              Pod((RequestCpuFraction :> <<"0", ".", "1">>), TwoContainers,
                  Affinity(FALSE, FALSE, FALSE, <<>>))),
      Request("", "application/json", "u5", TRUE, SimplePod) }

\* the states the node cache can be in
Snapshots ==
    {[synced |-> FALSE, nodes |-> <<>>]}
        \cup {[synced |-> TRUE, nodes |-> [n \in StableNodes \cup S |-> ClusterNodes[n]]] :
                S \in SUBSET JoiningNodes}

InitConcurrent ==
    /\ \E snap \in Snapshots : cacheSynced = snap.synced /\ nodes = snap.nodes
    /\ pc = "idle"
    /\ request = NoRequest
    /\ answer = NoAnswer
    /\ admission = ""
    /\ handlers = [h \in Handlers |-> IdleHandler]
    /\ algebra = NoAlgebra

\* handler h goes to statement next with the locals given
Step(h, next, locals) ==
    /\ handlers' = [handlers EXCEPT ![h].pc = next, ![h].locals = locals]
    /\ UNCHANGED <<algebra, cacheSynced, nodes, pc, request, answer, admission>>

\* serve up to the call of mutate and createPatch, or to its early answer
Receive(h, req) ==
    /\ handlers[h].pc = "idle"
    /\ handlers' = [handlers EXCEPT ![h] =
            IF ReachesCreatePatch(req)
            THEN [IdleHandler EXCEPT !.pc = "parse", !.req = req]
            ELSE [IdleHandler EXCEPT !.pc = "done", !.req = req,
                                     !.response = serve(req, NoRun)]]
    /\ UNCHANGED <<algebra, cacheSynced, nodes, pc, request, answer, admission>>

\* err, fractions := rps.NewFromAnnotations(pod.Annotations)
ParseAnnotations(h) ==
    /\ handlers[h].pc = "parse"
    /\ \E parsed \in NewFromAnnotationsOutcomes(handlers[h].req.pod.annotations) :
        IF IsError(parsed.err)
        THEN Step(h, "respond",
                  [NoLocals EXCEPT !.run =
                        PatchRun(NoBytes,
                                 Error("problem parsing annotations",
                                       parsed.err.inner, parsed.err.text),
                                 New, 0, {}, <<>>, "", New, <<>>)])
        ELSE Step(h, "list", [NoLocals EXCEPT !.run.fractions = parsed.props])

\* globalClient.List(ctx, &nodes), then the nodeByName map
ListNodes(h) ==
    LET f == Frame(handlers, h)
    IN /\ handlers[h].pc = "list"
       /\ IF ~cacheSynced
          THEN Step(h, "respond",
                    [f EXCEPT !.run.err = Error("problem fetching node data", "", <<>>),
                              !.run.listCalls = 1])
          ELSE Step(h, "compute",
                    [f EXCEPT !.listed = nodes, !.run.listCalls = 1,
                              !.run.nodeByName = DOMAIN nodes])

\* the shares, the node name, the node, the budgets
ComputeBudgets(h) ==
    LET f == Frame(handlers, h)
        pod == handlers[h].req.pod
        shares == computeProportionalResourceRequirements(pod)
        named == getNodeName(pod)
        found == lookupNode(f.listed, named.name)
        budget == computePodResourceBudget(f.run.fractions, found.node)
    IN /\ handlers[h].pc = "compute"
       /\ IF IsError(named.err)
          THEN Step(h, "respond",
                    [f EXCEPT !.run.err = named.err,
                              !.run.containersProportionalRequirements = shares])
          ELSE IF ~found.ok
          THEN Step(h, "respond",
                    [f EXCEPT !.run.err = Error("cannot find data for node",
                                                pod.nodeName, <<>>),
                              !.run.containersProportionalRequirements = shares,
                              !.run.nodeName = named.name])
          ELSE Step(h, "patch",
                    [f EXCEPT !.run.containersProportionalRequirements = shares,
                              !.run.nodeName = named.name,
                              !.run.podResourceBudget = budget,
                              !.run.containersResourceBudget =
                                    computePodContainerResourceBudget(shares, budget)])

\* the loop over the containers, the status operation, json.Marshal
BuildPatch(h) ==
    LET f == Frame(handlers, h)
    IN /\ handlers[h].pc = "patch"
       /\ \E replaces \in UNION {ReplacePatches(handlers[h].req.pod,
                                                f.run.containersResourceBudget, 1, impl) :
                                    impl \in ImplementationDefinedQuantities} :
            Step(h, "respond", [f EXCEPT !.run.patchBytes = Marshal(WithStatus(replaces))])

\* mutate wraps createPatch's result, serve writes the review
Respond(h) ==
    /\ handlers[h].pc = "respond"
    /\ handlers' = [handlers EXCEPT ![h].pc = "done",
                                    ![h].response = serve(handlers[h].req,
                                                          Frame(handlers, h).run)]
    /\ UNCHANGED <<algebra, cacheSynced, nodes, pc, request, answer, admission>>

\* the handler returns, its goroutine is free for another request
Return(h) ==
    /\ handlers[h].pc = "done"
    /\ handlers' = [handlers EXCEPT ![h] = IdleHandler]
    /\ UNCHANGED <<algebra, cacheSynced, nodes, pc, request, answer, admission>>

NextConcurrent ==
    \/ \E h \in Handlers, req \in ConcurrentRequests : Receive(h, req)
    \/ \E h \in Handlers : ParseAnnotations(h)
    \/ \E h \in Handlers : ListNodes(h)
    \/ \E h \in Handlers : ComputeBudgets(h)
    \/ \E h \in Handlers : BuildPatch(h)
    \/ \E h \in Handlers : Respond(h)
    \/ \E h \in Handlers : Return(h)

SpecConcurrent == InitConcurrent /\ [][NextConcurrent]_vars


(***************************************************************************)
(* The package used on its own.  Go holds a ResourceProperties as maps     *)
(* from the bound pairs to pointers to bindings: the bindings are cells of *)
(* a heap (a sequence, the address of a cell being its index), a property  *)
(* set is a function from its bound pairs to addresses.  Operations that   *)
(* work in place write through the pointers; New, Mul and Div allocate.    *)
(***************************************************************************)
MaxOperations == 2

\* the property set of slot s, read through its pointers
Deref(alg, s) == [k \in DOMAIN alg.sets[s] |-> alg.heap[alg.sets[s][k]]]

\* a fixed order of the bound pairs, in which cells are allocated
KeyIndex(k) ==
    (CASE k[1] = ResourceRequests -> 0 [] k[1] = ResourceLimits -> 2
       [] k[1] = ResourcePodMinimum -> 4 [] k[1] = ResourcePodMaximum -> 6)
    + (IF k[2] = ResourceCPU THEN 0 ELSE 1)

\* the address of the cell allocated for k when cells for keys are allocated
FreshAddress(heap, keys, k) ==
    Len(heap) + Cardinality({j \in keys : KeyIndex(j) < KeyIndex(k)}) + 1

\* the receiver keeps the pointer it read from the operand
SharedWith(address, fresh) == address

\* otherBindingCopy := *otherBinding; the receiver keeps &otherBindingCopy
CopyOf(address, fresh) == fresh

\* slot s takes the bindings of value: those it has are written through
\* their pointers, the others get cells of their own; origin tells, for the
\* bindings that are copies, the address of the binding copied
Store(alg, s, value, origin) ==
    LET old == alg.sets[s]
        new == DOMAIN value \ DOMAIN old
        cells == [a \in 1..(Len(alg.heap) + Cardinality(new)) |->
                    IF \E k \in DOMAIN old : old[k] = a
                    THEN value[CHOOSE k \in DOMAIN old : old[k] = a]
                    ELSE IF a <= Len(alg.heap) THEN alg.heap[a]
                    ELSE value[CHOOSE k \in new : FreshAddress(alg.heap, new, k) = a]]
    IN [alg EXCEPT
          !.heap = cells,
          !.sets[s] = [k \in DOMAIN value |->
                IF k \in DOMAIN old THEN old[k]
                ELSE IF k \in DOMAIN origin
                     THEN CopyOf(origin[k], FreshAddress(alg.heap, new, k))
                     ELSE FreshAddress(alg.heap, new, k)]]

\* result := New() filled with the bindings of value
StoreResult(alg, value) ==
    Store([alg EXCEPT !.sets["result"] = <<>>], "result", value, <<>>)

\* the property set with the bindings given (one per bound pair)
PropertySet(bindings) ==
    [k \in {<<b.resourceProp, b.resourceName>> : b \in bindings} |->
        CHOOSE b \in bindings : <<b.resourceProp, b.resourceName>> = k]

\* the property sets the operations are called on: quantities with a request
\* above its limit, fractions, a request of 0, and the empty set
ReceiverSets ==
    { PropertySet({NewBinding(ResourceQuantity, ResourceRequests, ResourceCPU, FromInt(3)),
                   NewBinding(ResourceQuantity, ResourceLimits, ResourceCPU, FromInt(2)),
                   NewBinding(ResourceQuantity, ResourceRequests, ResourceMemory, FromInt(100))}),
      PropertySet({NewBinding(ResourceFraction, ResourceRequests, ResourceCPU, Rat(1, 2)),
                   NewBinding(ResourceFraction, ResourceLimits, ResourceCPU, Rat(1, 4))}),
      PropertySet({NewBinding(ResourceQuantity, ResourceRequests, ResourceCPU, Zero),
                   NewBinding(ResourceQuantity, ResourceLimits, ResourceCPU, One)}),
      New }

\* the property sets they are given as operand: with a minimum below the
\* maximum, with a minimum above the maximum, with one bound only, with
\* values of 0, with a binding the receivers lack
OperandSets ==
    { PropertySet({NewBinding(ResourceQuantity, ResourceRequests, ResourceCPU, FromInt(2)),
                   NewBinding(ResourceQuantity, ResourceLimits, ResourceCPU, FromInt(4)),
                   NewBinding(ResourceQuantity, ResourcePodMinimum, ResourceCPU, One),
                   NewBinding(ResourceQuantity, ResourcePodMaximum, ResourceCPU, FromInt(2))}),
      PropertySet({NewBinding(ResourceFraction, ResourceRequests, ResourceCPU, Rat(1, 2)),
                   NewBinding(ResourceFraction, ResourceLimits, ResourceCPU, Rat(1, 2)),
                   NewBinding(ResourceFraction, ResourceRequests, ResourceMemory, Rat(1, 10)),
                   NewBinding(ResourceQuantity, ResourcePodMinimum, ResourceCPU, FromInt(2)),
                   NewBinding(ResourceQuantity, ResourcePodMaximum, ResourceCPU, One)}),
      PropertySet({NewBinding(ResourceQuantity, ResourceRequests, ResourceCPU, Zero),
                   NewBinding(ResourceQuantity, ResourceLimits, ResourceCPU, Zero),
                   NewBinding(ResourceQuantity, ResourcePodMinimum, ResourceMemory, FromInt(50))}),
      PropertySet({NewBinding(ResourceQuantity, ResourceLimits, ResourceMemory, FromInt(5)),
                   NewBinding(ResourceQuantity, ResourcePodMaximum, ResourceCPU, One)}) }

\* the bindings BindPropertyFloat is called with
BoundBindings ==
    { NewBinding(ResourceQuantity, ResourceRequests, ResourceCPU, FromInt(5)),
      NewBinding(ResourceFraction, ResourceLimits, ResourceMemory, Rat(1, 2)) }

\* the amounts HumanValue is called on
RenderedValues ==
    { FromInt(840000000), FromInt(342000000), FromInt(2000000000), FromInt(999000),
      FromInt(1000), FromInt(1234567), FromInt(1999), FromInt(15), Rat(21, 2),
      FromInt(10), Rat(3, 2), Rat(1, 10) }

\* NewBinding(...) of these amounts, and one fraction
RenderedBindings ==
    {NewBinding(ResourceQuantity, ResourceRequests, ResourceCPU, v) : v \in RenderedValues}
        \cup {NewBinding(ResourceFraction, ResourceRequests, ResourceCPU, Rat(1, 4))}

\* the slots operations are called on, and the slot of their operand
Receivers == {"rp", "result"}

InitAlgebra ==
    /\ cacheSynced = FALSE
    /\ nodes = <<>>
    /\ pc = "idle"
    /\ request = NoRequest
    /\ answer = NoAnswer
    /\ admission = ""
    /\ handlers = [h \in Handlers |-> IdleHandler]
    /\ \E rp \in ReceiverSets, operand \in OperandSets :
         algebra = Store(Store(NoAlgebra, "rp", rp, <<>>), "operand", operand, <<>>)

\* may another operation be called?  (a panic ends the program)
CanOperate ==
    /\ Len(algebra.trace) < MaxOperations
    /\ ~algebra.last.panicked

\* alg after the operation op of slot s, with what it was called on
Operated(alg, op, s, o, panicked, binding, text) ==
    [alg EXCEPT
        !.trace = Append(algebra.trace, <<op, s>>),
        !.last = [op |-> op, receiver |-> s, operand |-> o,
                  before |-> [t \in Slots |-> Deref(algebra, t)],
                  panicked |-> panicked, binding |-> binding, text |-> text]]

Operate(alg) ==
    /\ algebra' = alg
    /\ UNCHANGED <<cacheSynced, nodes, pc, request, answer, admission, handlers>>

\* s.Add(operand)
DoAdd(s) ==
    /\ CanOperate
    /\ Operate(Operated(Store(algebra, s, Add(Deref(algebra, s), Deref(algebra, "operand")),
                              algebra.sets["operand"]),
                        "Add", s, "operand", FALSE, <<>>, ""))

\* s.BindPropertyFloat(kind, prop, res, value)
DoBindPropertyFloat(s, b) ==
    /\ CanOperate
    /\ Operate(Operated(Store(algebra, s,
                              BindPropertyFloat(Deref(algebra, s), b.resourceKind,
                                                b.resourceProp, b.resourceName, b.value),
                              <<>>),
                        "BindPropertyFloat", s, "", FALSE, b, ""))

\* result := s.Mul(operand)
DoMul(s) ==
    /\ CanOperate
    /\ Operate(Operated(StoreResult(algebra, Mul(Deref(algebra, s), Deref(algebra, "operand"))),
                        "Mul", s, "operand", FALSE, <<>>, ""))

\* result := s.Div(operand), or the panic of the nil dereference
DoDiv(s) ==
    /\ CanOperate
    /\ IF DivPanics(Deref(algebra, s), Deref(algebra, "operand"))
       THEN Operate(Operated(algebra, "Div", s, "operand", TRUE, <<>>, ""))
       ELSE Operate(Operated(StoreResult(algebra,
                                         Div(Deref(algebra, s), Deref(algebra, "operand"))),
                             "Div", s, "operand", FALSE, <<>>, ""))

\* s.ForceLimitAboveRequest()
DoForceLimitAboveRequest(s) ==
    /\ CanOperate
    /\ Operate(Operated(Store(algebra, s, ForceLimitAboveRequest(Deref(algebra, s)), <<>>),
                        "ForceLimitAboveRequest", s, "", FALSE, <<>>, ""))

\* s.ClampRequestsAndLimits(operand)
DoClampRequestsAndLimits(s) ==
    /\ CanOperate
    /\ Operate(Operated(Store(algebra, s,
                              ClampRequestsAndLimits(Deref(algebra, s),
                                                     Deref(algebra, "operand")),
                              <<>>),
                        "ClampRequestsAndLimits", s, "operand", FALSE, <<>>, ""))

\* NewBinding(...).HumanValue()
DoHumanValue(b) ==
    /\ CanOperate
    /\ \E impl \in ImplementationDefinedQuantities :
         Operate(Operated(algebra, "HumanValue", "", "", FALSE, b, HumanValue(b, impl)))

NextAlgebra ==
    \/ \E s \in Receivers : DoAdd(s)
    \/ \E s \in Receivers, b \in BoundBindings : DoBindPropertyFloat(s, b)
    \/ \E s \in Receivers : DoMul(s)
    \/ \E s \in Receivers : DoDiv(s)
    \/ \E s \in Receivers : DoForceLimitAboveRequest(s)
    \/ \E s \in Receivers : DoClampRequestsAndLimits(s)
    \/ \E b \in RenderedBindings : DoHumanValue(b)

SpecAlgebra == InitAlgebra /\ [][NextAlgebra]_vars


(***************************************************************************)
(* Vocabulary of the properties.                                           *)
(***************************************************************************)
run == answer.run

\* serve went as far as calling createPatch
Called ==
    /\ pc # "idle"
    /\ request.body = "review"
    /\ request.contentType = "application/json"
    /\ request.podDecodes

Failed == Called /\ IsError(run.err)
Succeeded == Called /\ ~IsError(run.err)

\* the run went past the parsing of the annotations and the listing of the nodes
SharesComputed ==
    Called /\ run.err.msg \notin {"problem parsing annotations", "problem fetching node data"}

Tunables == {ResourceRequests, ResourceLimits} \X ResourceNames

ContainerIndexes(pod) == 1..Len(pod.containers)

\* the replace operations of the patch written
ReplaceOps == SelectSeq(run.patchBytes.ops, LAMBDA o : o.Op = "replace")

\* is there a replace operation on prop.res of the container of 0-based index i?
Replaces(i, prop, res) ==
    \E n \in 1..Len(ReplaceOps) :
        ReplaceOps[n].Path = PropertyJsonPath(NewBinding(ResourceQuantity, prop, res, Zero), i)

\* the strings between the commas of a text
RECURSIVE SplitComma(_, _, _)
SplitComma(t, i, cur) ==
    IF i > Len(t) THEN {cur}
    ELSE IF t[i] = "," THEN {cur} \cup SplitComma(t, i + 1, "")
    ELSE SplitComma(t, i + 1, cur \o t[i])

\* the container names the exclude-containers annotation lists
Excluded(pod) ==
    IF ExcludeContainers \in DOMAIN pod.annotations
    THEN SplitComma(pod.annotations[ExcludeContainers], 1, "") \ {""}
    ELSE {}

\* the sum of the values the containers of indexes idxs declare for prop.res
RECURSIVE DeclaredSum(_, _, _, _)
DeclaredSum(pod, prop, res, idxs) ==
    IF idxs = {} THEN Zero
    ELSE LET i == CHOOSE j \in idxs : TRUE
             v == IF Declares(pod.containers[i], prop, res)
                  THEN DeclaredValue(pod.containers[i], prop, res) ELSE Zero
         IN FAdd(v, DeclaredSum(pod, prop, res, idxs \ {i}))

\* the sum over the containers of indexes idxs of their share of prop.res
RECURSIVE ShareSum(_, _, _, _, _)
ShareSum(pod, shares, prop, res, idxs) ==
    IF idxs = {} THEN Zero
    ELSE LET i == CHOOSE j \in idxs : TRUE
             sh == shares[pod.containers[i].name]
             v == IF IsBound(sh, prop, res) THEN GetValue(sh, prop, res) ELSE Zero
         IN FAdd(v, ShareSum(pod, shares, prop, res, idxs \ {i}))

DistinctNames(pod) ==
    \A i, j \in ContainerIndexes(pod) :
        pod.containers[i].name = pod.containers[j].name => i = j

\* a bound (pod-minimum or pod-maximum) is configured for the resource
HasBound(fractions, res) ==
    IsBound(fractions, ResourcePodMinimum, res) \/ IsBound(fractions, ResourcePodMaximum, res)

\* the capacity the run read for the node it resolved
CapacityRead(res) == ClusterNodes[run.nodeName].capacity[res]

\* the request of prop.res in ctnBudget was lowered by ForceLimitAboveRequest
Forced(sh, budget, prop, res) ==
    /\ prop = ResourceRequests
    /\ IsBound(Mul(sh, budget), ResourceLimits, res)
    /\ FGt(GetValue(Mul(sh, budget), ResourceRequests, res),
           GetValue(Mul(sh, budget), ResourceLimits, res))

(***************************************************************************)
(* C1: whenever a pod-minimum or pod-maximum is configured for a resource, *)
(* the pod budget of that resource (node capacity x fraction) is clamped   *)
(* to the bound before it is multiplied by the shares: the budget the run  *)
(* holds is the clamped one, and every container budget that               *)
(* ForceLimitAboveRequest left alone is share x clamped budget.            *)
(* The code never calls ClampRequestsAndLimits: the statement is violated. *)
(***************************************************************************)
C1_BudgetClampedBeforeDistribution ==
    Succeeded =>
        \A k \in DOMAIN run.podResourceBudget \cap Tunables :
            HasBound(run.fractions, k[2]) =>
                LET clamped == ClampValue(FMul(CapacityRead(k[2]), run.fractions[k].value),
                                          run.fractions, k[2])
                IN /\ run.podResourceBudget[k].value = clamped
                   /\ \A name \in DOMAIN run.containersProportionalRequirements :
                        LET sh == run.containersProportionalRequirements[name]
                        IN (IsBound(sh, k[1], k[2])
                              /\ ~Forced(sh, run.podResourceBudget, k[1], k[2]))
                            => run.containersResourceBudget[name][k].value
                                 = FMul(sh[k].value, clamped)

(***************************************************************************)
(* C2: for every (role, resource) with a configured fraction on a node     *)
(* that reports the resource, the pod budget is capacity x fraction minus  *)
(* the sum of that (role, resource) over the excluded containers.          *)
(* The code never reads the exclusion list: the statement is violated.     *)
(***************************************************************************)
C2_BudgetSubtractsExcluded ==
    Succeeded =>
        \A k \in DOMAIN run.fractions \cap Tunables :
            k[2] \in DOMAIN ClusterNodes[run.nodeName].capacity =>
                /\ k \in DOMAIN run.podResourceBudget
                /\ run.podResourceBudget[k].value
                     = FSub(FMul(CapacityRead(k[2]), run.fractions[k].value),
                            DeclaredSum(request.pod, k[1], k[2],
                                {i \in ContainerIndexes(request.pod) :
                                    request.pod.containers[i].name \in Excluded(request.pod)}))

(***************************************************************************)
(* C3: no patch operation targets a container the exclude-containers       *)
(* annotation names, and the shares of the other containers are computed   *)
(* from a total that leaves the excluded containers out.                   *)
(* The code never reads the exclusion list: the statement is violated.     *)
(***************************************************************************)
C3_ExcludedContainersUntouched ==
    Succeeded =>
        LET pod == request.pod
            kept == {i \in ContainerIndexes(pod) : pod.containers[i].name \notin Excluded(pod)}
        IN /\ \A i \in ContainerIndexes(pod) \ kept :
                \A k \in Tunables : ~Replaces(i - 1, k[1], k[2])
           /\ \A i \in kept : \A k \in Tunables :
                (Declares(pod.containers[i], k[1], k[2]) /\ DistinctNames(pod))
                    => run.containersProportionalRequirements[pod.containers[i].name][k].value
                         = FDiv(DeclaredValue(pod.containers[i], k[1], k[2]),
                                DeclaredSum(pod, k[1], k[2], kept))


(***************************************************************************)
(* C4 (as stated): for every pod with no exclusions and every (role,       *)
(* resource) at least one container declares, the shares of that (role,    *)
(* resource) summed over all containers of the pod equal 1.                *)
(* Violated: a declared total of 0 gives shares that are not numbers, and  *)
(* of two containers of one name only the later one's share is kept.       *)
(***************************************************************************)
C4_SharesSumToOne_AsStated ==
    (SharesComputed /\ Excluded(request.pod) = {}) =>
        \A k \in Tunables :
            (\E i \in ContainerIndexes(request.pod) :
                Declares(request.pod.containers[i], k[1], k[2]))
            => ShareSum(request.pod, run.containersProportionalRequirements, k[1], k[2],
                        ContainerIndexes(request.pod)) = One

(***************************************************************************)
(* C4 (amended): for every pod with no exclusions whose containers have    *)
(* distinct names, and every (role, resource) whose values summed over the *)
(* containers are not 0, the shares of that (role, resource) summed over   *)
(* all containers of the pod equal 1 (exactly, in the rationals the model  *)
(* computes with).                                                         *)
(***************************************************************************)
C4_SharesSumToOne ==
    (SharesComputed /\ Excluded(request.pod) = {} /\ DistinctNames(request.pod)) =>
        \A k \in Tunables :
            DeclaredSum(request.pod, k[1], k[2], ContainerIndexes(request.pod)) # Zero
            => ShareSum(request.pod, run.containersProportionalRequirements, k[1], k[2],
                        ContainerIndexes(request.pod)) = One

\* shares were computed for two containers of different names whose cpu
\* requests differ and are not zero
C4_Witness ==
    /\ SharesComputed
    /\ Excluded(request.pod) = {}
    /\ DistinctNames(request.pod)
    /\ Len(request.pod.containers) = 2
    /\ \A i \in 1..2 : Declares(request.pod.containers[i], ResourceRequests, ResourceCPU)
    /\ \A i \in 1..2 : DeclaredValue(request.pod.containers[i], ResourceRequests, ResourceCPU) # Zero
    /\ DeclaredValue(request.pod.containers[1], ResourceRequests, ResourceCPU)
         # DeclaredValue(request.pod.containers[2], ResourceRequests, ResourceCPU)

(***************************************************************************)
(* C5: when the values of a (role, resource) summed over the containers    *)
(* are 0, no container's shares bind that (role, resource), and the patch  *)
(* holds no replace operation for it.                                      *)
(* Div divides by the zero total all the same: the statement is violated.  *)
(***************************************************************************)
C5_NoShareWhenTotalIsZero ==
    SharesComputed =>
        \A k \in Tunables :
            DeclaredSum(request.pod, k[1], k[2], ContainerIndexes(request.pod)) = Zero
            => /\ \A name \in DOMAIN run.containersProportionalRequirements :
                    ~IsBound(run.containersProportionalRequirements[name], k[1], k[2])
               /\ \A i \in ContainerIndexes(request.pod) : ~Replaces(i - 1, k[1], k[2])

\* a fraction as the annotations document it: a decimal number in (0, 1]
DecimalInUnitInterval(t) ==
    /\ IsDecimal(StripSign(t))
    /\ FGt(FMul(FromInt(TextSign(t)), DecimalValue(StripSign(t))), Zero)
    /\ FLe(FMul(FromInt(TextSign(t)), DecimalValue(StripSign(t))), One)

\* the recognized annotations of the pod whose value is malformed or out of range
Malformed(annotations) ==
    {key \in PresentSupported(annotations) :
        IF supportedAnnotations[key].resourceKind = ResourceFraction
        THEN ~DecimalInUnitInterval(annotations[key])
        ELSE ~parseQuantity(annotations[key]).ok}

(***************************************************************************)
(* C6: if some recognized annotation of the pod has a malformed value or a *)
(* fraction outside (0,1], NewFromAnnotations returns an error and no      *)
(* property set, and createPatch returns that error and no patch bytes.    *)
(* Violated: the value NaN passes both comparisons of parseFraction.       *)
(***************************************************************************)
C6_MalformedAnnotationIsAnError ==
    (Called /\ Malformed(request.pod.annotations) # {}) =>
        /\ \A parsed \in NewFromAnnotationsOutcomes(request.pod.annotations) :
                IsError(parsed.err) /\ parsed.props = New
        /\ run.err.msg = "problem parsing annotations"
        /\ run.patchBytes = NoBytes

\* the one shape of required node affinity a node name is read from
ExactShape(a) ==
    /\ a.hasAffinity /\ a.hasNodeAffinity /\ a.hasRequired
    /\ Len(a.nodeSelectorTerms) = 1
    /\ Len(a.nodeSelectorTerms[1].matchFields) = 1
    /\ a.nodeSelectorTerms[1].matchFields[1].key = "metadata.name"
    /\ a.nodeSelectorTerms[1].matchFields[1].operator = NodeSelectorOpIn
    /\ Len(a.nodeSelectorTerms[1].matchFields[1].values) = 1

(***************************************************************************)
(* C7: getNodeName returns a node name only for a pod whose required node  *)
(* affinity has exactly one term with exactly one matchFields entry, on    *)
(* metadata.name, with operator In and one value; for every other shape it *)
(* returns an error.                                                       *)
(* Violated: the loops take the first fitting entry of any number of terms *)
(* and entries.                                                            *)
(***************************************************************************)
C7_NodeNameOnlyForExactShape ==
    SharesComputed =>
        (~ExactShape(request.pod.affinity)
            => /\ IsError(getNodeName(request.pod).err)
               /\ run.err.msg = "problem getting node name")

(***************************************************************************)
(* C8: when the node name read from the pod's affinity is not among the    *)
(* nodes listed, createPatch returns an error and no patch bytes, having   *)
(* listed the nodes once (no second lookup, no wait).                      *)
(***************************************************************************)
C8_MissingNodeIsAnError ==
    (SharesComputed
        /\ ~IsError(getNodeName(request.pod).err)
        /\ getNodeName(request.pod).name \notin run.nodeByName)
    => /\ run.err.msg = "cannot find data for node"
       /\ run.patchBytes = NoBytes
       /\ run.listCalls = 1
       /\ run.podResourceBudget = New
       /\ ~answer.review.Allowed /\ answer.review.Patch = NoBytes

\* the pod is pinned to a node the listing did not hold
C8_Witness ==
    /\ SharesComputed
    /\ ~IsError(getNodeName(request.pod).err)
    /\ getNodeName(request.pod).name \notin run.nodeByName
    /\ run.nodeByName # {}
    /\ IsError(run.err)

(***************************************************************************)
(* C9: whenever createPatch fails, the admission response carries no patch *)
(* and the pod is admitted unchanged rather than rejected.                 *)
(* Violated: mutate answers such a failure with a response that is not     *)
(* allowed, which the API server takes as a rejection of the pod.          *)
(***************************************************************************)
C9_FailureAdmitsPodUnchanged ==
    (pc = "decided" /\ Failed) =>
        /\ answer.review.Patch = NoBytes
        /\ admission = "admitted-unchanged"

\* the positions in ops of the operations on the container of 1-based index i
ContainerOps(ops, i) ==
    {n \in 1..Len(ops) :
        \E prop \in allValidResourceProperties, res \in ResourceNames :
            ops[n].Path = PropertyJsonPath(NewBinding(ResourceQuantity, prop, res, Zero), i - 1)}

OpsOf(i) == ContainerOps(ReplaceOps, i)

(***************************************************************************)
(* C10: the replace operations of the patch are exactly one per binding of *)
(* each container's final property set (no operation besides these), and   *)
(* every operation of container i comes before every operation of          *)
(* container j when i < j.                                                 *)
(***************************************************************************)
C10_OneReplacePerBindingInContainerOrder ==
    Succeeded =>
        LET pod == request.pod
            ops == ReplaceOps
            final == [i \in ContainerIndexes(pod) |->
                        run.containersResourceBudget[pod.containers[i].name]]
            opsOf == [i \in ContainerIndexes(pod) |-> ContainerOps(ops, i)]
        IN /\ \A n \in 1..Len(ops) : \E i \in ContainerIndexes(pod) : n \in opsOf[i]
           /\ \A i \in ContainerIndexes(pod) :
                /\ Cardinality(opsOf[i]) = Cardinality(DOMAIN final[i])
                /\ \A k \in DOMAIN final[i] :
                     Cardinality({n \in opsOf[i] :
                        ops[n].Path = PropertyJsonPath(final[i][k], i - 1)}) = 1
           /\ \A i, j \in ContainerIndexes(pod) :
                i < j => \A m \in opsOf[i], n \in opsOf[j] : m < n
           /\ Len(run.patchBytes.ops) = Len(ops) + (IF Len(ops) > 0 THEN 1 ELSE 0)

\* a patch was written for two containers, with operations for both and more
\* than one operation for one of them
C10_Witness ==
    /\ Succeeded
    /\ Len(request.pod.containers) = 2
    /\ OpsOf(1) # {} /\ OpsOf(2) # {}
    /\ Cardinality(OpsOf(1)) + Cardinality(OpsOf(2)) >= 3


\* the positions of the operations of the patch that add the status annotation
StatusOps ==
    {n \in 1..Len(run.patchBytes.ops) :
        /\ run.patchBytes.ops[n].Op = "add"
        /\ run.patchBytes.ops[n].Path = StatusAnnotationPath}

(***************************************************************************)
(* C11: the patch of a run that succeeds holds an add operation on the     *)
(* status annotation if and only if it holds a replace operation; there is *)
(* then one such operation, it is the last one, and its value is           *)
(* patch_count=<n> with n the number of replace operations.  With no       *)
(* replace operation the patch is the empty list; and a run that gets as   *)
(* far as a node it finds returns no error, whatever the patch holds.      *)
(***************************************************************************)
C11_StatusOperationIffReplace ==
    /\ Succeeded =>
        LET ops == run.patchBytes.ops
        IN /\ (StatusOps # {}) <=> (Len(ReplaceOps) > 0)
           /\ Len(ReplaceOps) > 0 =>
                /\ StatusOps = {Len(ops)}
                /\ ops[Len(ops)].Value = "patch_count=" \o ToString(Len(ReplaceOps))
                /\ Len(ops) = Len(ReplaceOps) + 1
           /\ Len(ReplaceOps) = 0 => ops = <<>>
    /\ (SharesComputed
          /\ ~IsError(getNodeName(request.pod).err)
          /\ getNodeName(request.pod).name \in run.nodeByName) => Succeeded

\* a patch of several replace operations, closed by the status operation
C11_Witness ==
    /\ Succeeded
    /\ Len(ReplaceOps) >= 2
    /\ StatusOps # {}

\* is some fraction annotation of the pod about prop.res?
HasFraction(pod, prop, res) ==
    \E key \in PresentSupported(pod.annotations) :
        /\ supportedAnnotations[key].resourceKind = ResourceFraction
        /\ supportedAnnotations[key].resourceProp = prop
        /\ supportedAnnotations[key].resourceName = res

(***************************************************************************)
(* C12: for every (role, resource) the pod carries no fraction annotation  *)
(* for, the patch holds no replace operation on any container for that     *)
(* (role, resource), whatever other fractions or bounds are configured.    *)
(***************************************************************************)
C12_NoFractionNoReplace ==
    Succeeded =>
        \A k \in Tunables :
            ~HasFraction(request.pod, k[1], k[2])
                => \A i \in ContainerIndexes(request.pod) : ~Replaces(i - 1, k[1], k[2])

\* a patch for a pod with a cpu fraction and a memory bound but no memory
\* fraction, whose containers declare memory requests
C12_Witness ==
    /\ Succeeded
    /\ Len(ReplaceOps) > 0
    /\ HasFraction(request.pod, ResourceRequests, ResourceCPU)
    /\ ~HasFraction(request.pod, ResourceRequests, ResourceMemory)
    /\ MaximumMemory \in DOMAIN request.pod.annotations
    /\ \E i \in ContainerIndexes(request.pod) :
            Declares(request.pod.containers[i], ResourceRequests, ResourceMemory)


\* do two runs return the same error?
SameError(r1, r2) == r1.err = r2.err

\* do two runs write the same operations in the same order?  (Two values
\* that both render a conversion the build defines are taken as the same:
\* one build renders them alike.)
SamePatch(r1, r2) ==
    /\ r1.patchBytes.bytes = r2.patchBytes.bytes
    /\ Len(r1.patchBytes.ops) = Len(r2.patchBytes.ops)
    /\ \A n \in 1..Len(r1.patchBytes.ops) :
        LET o1 == r1.patchBytes.ops[n]
            o2 == r2.patchBytes.ops[n]
        IN /\ o1.Op = o2.Op
           /\ o1.Path = o2.Path
           /\ \/ o1.Value = o2.Value
              \/ {o1.Value, o2.Value} \subseteq ImplementationDefinedQuantities

(***************************************************************************)
(* C13: createPatch is deterministic: any two runs on the same pod and the *)
(* same node snapshot return the same sequence of patch operations, in the *)
(* same order, or the same error.                                          *)
(* Violated: the bindings of a container are walked in Go's map order, and *)
(* so are the supported annotations when more than one is malformed.       *)
(***************************************************************************)
C13_CreatePatchIsDeterministic ==
    Called =>
        \A r1, r2 \in createPatch(request.pod, cacheSynced, nodes) :
            SameError(r1, r2) /\ SamePatch(r1, r2)


\* the answers serve gives a request when nothing else runs
AnswersAlone(req) ==
    {serve(req, r) :
        r \in IF ReachesCreatePatch(req)
              THEN createPatch(req.pod, cacheSynced, nodes)
              ELSE {NoRun}}

(***************************************************************************)
(* C14: requests served side by side do not interfere: under every         *)
(* interleaving of the statements of two handlers against a node snapshot  *)
(* that does not change, each request gets an answer (status, response,    *)
(* and the values createPatch computed on the way) that it can get when it *)
(* runs alone; no handler's answer depends on what the other one wrote.    *)
(***************************************************************************)
C14_ConcurrentRequestsDoNotInterfere ==
    \A h \in Handlers :
        handlers[h].pc = "done" => handlers[h].response \in AnswersAlone(handlers[h].req)

\* one handler has answered a request that went through createPatch while
\* the other, on another request, is in the middle of its own createPatch
C14_Witness ==
    \E h, g \in Handlers :
        /\ h # g
        /\ handlers[h].pc = "done"
        /\ ReachesCreatePatch(handlers[h].req)
        /\ handlers[g].pc \in {"compute", "patch"}
        /\ handlers[g].req # handlers[h].req


\* the text of a quantity of the given amount, whole in thousandths
QuantityOf(amount) == QuantityString(Trunc(FMul(amount, FromInt(MilliPerUnit))))

\* does the patch replace prop.res of the container of 0-based index i by value?
ReplacesBy(i, prop, res, value) ==
    \E n \in 1..Len(ReplaceOps) :
        ReplaceOps[n] = patchOperation("replace",
                            PropertyJsonPath(NewBinding(ResourceQuantity, prop, res, Zero), i),
                            value)

\* 1Ki, in bytes
Ki == FromInt(1024)

(***************************************************************************)
(* C15: scenario A, with the memory amounts counted in Ki where the        *)
(* scenario counts them in Mi (a node of 4 cpu and 8Mi, containers asking  *)
(* 100m cpu, 100Ki and 300m cpu, 900Ki, both fractions 0.1): the patch     *)
(* sets the requests of the first container to cpu 100m and memory 81.92Ki *)
(* and those of the second to cpu 300m and memory 737.28Ki.                *)
(* Violated: HumanValue cuts an amount above 10 to a whole number of       *)
(* thousands (83k and 754k here).                                          *)
(***************************************************************************)
C15_ScenarioA ==
    (Succeeded /\ request.pod = ScenarioPod) =>
        /\ ReplacesBy(0, ResourceRequests, ResourceCPU, QuantityOf(Rat(100, 1000)))
        /\ ReplacesBy(1, ResourceRequests, ResourceCPU, QuantityOf(Rat(300, 1000)))
        /\ ReplacesBy(0, ResourceRequests, ResourceMemory, QuantityOf(FMul(Rat(8192, 100), Ki)))
        /\ ReplacesBy(1, ResourceRequests, ResourceMemory, QuantityOf(FMul(Rat(73728, 100), Ki)))


\* the amount the patch writes for a binding (not a number when the value is not)
Written(b) ==
    IF IsFinite(b.value) THEN Rat(HumanMilli(b), MilliPerUnit) ELSE NaN

\* ni * oj = nj * oi, for declared amounts oi, oj that are not negative
SameProportion(ni, oi, nj, oj) ==
    LET t == FAdd(oi, oj)
    IN IF t = Zero THEN FMul(ni, oj) = FMul(nj, oi)
       ELSE FMul(ni, FDiv(oj, t)) = FMul(nj, FDiv(oi, t))

\* is no exclusion and no bound configured for the pod?
Unconstrained(pod) ==
    /\ Excluded(pod) = {}
    /\ \A key \in PresentSupported(pod.annotations) :
            supportedAnnotations[key].resourceKind = ResourceFraction

(***************************************************************************)
(* C16: with no exclusions and no bounds, the sizing keeps the proportions *)
(* between containers: for any two containers i and j that both declare a  *)
(* (role, resource) with a configured fraction, new_i * old_j = new_j *    *)
(* old_i, old being the declared amount and new the amount the patch       *)
(* writes.                                                                 *)
(* Violated: the amounts written are cut by HumanValue, and a request      *)
(* above its limit is lowered to the limit.                                *)
(***************************************************************************)
C16_ProportionsPreserved ==
    (Succeeded /\ Unconstrained(request.pod)) =>
        LET pod == request.pod
            final(i) == run.containersResourceBudget[pod.containers[i].name]
        IN \A k \in Tunables : \A i, j \in ContainerIndexes(pod) :
            (/\ HasFraction(pod, k[1], k[2])
             /\ Declares(pod.containers[i], k[1], k[2])
             /\ Declares(pod.containers[j], k[1], k[2])
             /\ k \in DOMAIN final(i) /\ k \in DOMAIN final(j))
            => SameProportion(Written(final(i)[k]), DeclaredValue(pod.containers[i], k[1], k[2]),
                              Written(final(j)[k]), DeclaredValue(pod.containers[j], k[1], k[2]))


(***************************************************************************)
(* C17: the pod budget is computed from the node's allocatable amounts:    *)
(* for every (role, resource) with a configured fraction on a node that    *)
(* reports the resource, the budget is allocatable * fraction, also when   *)
(* the node's allocatable differs from its capacity.                       *)
(* Violated: computePodResourceBudget reads node.Status.Capacity.           *)
(***************************************************************************)
C17_BudgetFromAllocatable ==
    Succeeded =>
        \A k \in DOMAIN run.fractions \cap Tunables :
            k[2] \in DOMAIN ClusterNodes[run.nodeName].allocatable =>
                /\ k \in DOMAIN run.podResourceBudget
                /\ run.podResourceBudget[k].value
                     = FMul(ClusterNodes[run.nodeName].allocatable[k[2]], run.fractions[k].value)


(***************************************************************************)
(* C18: in every container's final property set, as                        *)
(* computePodContainerResourceBudget returns it, for every resource bound  *)
(* for both requests and limits, the requests value is less than or equal  *)
(* to the limits value.                                                    *)
(* Violated: a request that is not a number (a share of a total of 0) is   *)
(* not greater than its limit, so it is left as it is.                     *)
(***************************************************************************)
C18_RequestAtMostLimit ==
    Succeeded =>
        \A name \in DOMAIN run.containersResourceBudget :
            LET final == run.containersResourceBudget[name]
            IN \A res \in ResourceNames :
                (IsBound(final, ResourceRequests, res) /\ IsBound(final, ResourceLimits, res))
                => FLe(GetValue(final, ResourceRequests, res),
                       GetValue(final, ResourceLimits, res))


\* what the container named name gets before ForceLimitAboveRequest: shares * budget
Computed(name) == Mul(run.containersProportionalRequirements[name], run.podResourceBudget)

\* is the computed request of res above the computed limit of res?
RequestAboveLimit(rp, res) ==
    /\ IsBound(rp, ResourceRequests, res)
    /\ IsBound(rp, ResourceLimits, res)
    /\ FGt(GetValue(rp, ResourceRequests, res), GetValue(rp, ResourceLimits, res))

(***************************************************************************)
(* C19: when, for a resource, the computed limit is below the computed     *)
(* request, the limit is raised to the request: in the final property set  *)
(* the limit equals the computed request, and the request keeps its        *)
(* computed value.                                                         *)
(* Violated: ForceLimitAboveRequest lowers the request to the limit.       *)
(***************************************************************************)
C19_LimitRaisedToRequest ==
    Succeeded =>
        \A name \in DOMAIN run.containersResourceBudget : \A res \in ResourceNames :
            RequestAboveLimit(Computed(name), res)
            => /\ GetValue(run.containersResourceBudget[name], ResourceLimits, res)
                    = GetValue(Computed(name), ResourceRequests, res)
               /\ GetValue(run.containersResourceBudget[name], ResourceRequests, res)
                    = GetValue(Computed(name), ResourceRequests, res)

last == algebra.last
Was(s) == last.before[s]
Now(s) == Deref(algebra, s)

\* are both a pod-minimum and a pod-maximum of res configured in bounds?
BothBounds(bounds, res) ==
    IsBound(bounds, ResourcePodMinimum, res) /\ IsBound(bounds, ResourcePodMaximum, res)

(***************************************************************************)
(* C21: after ClampRequestsAndLimits(bounds), for every resource bounds    *)
(* has both a pod-minimum and a pod-maximum for, every requests and limits *)
(* value of the receiver lies between the minimum and the maximum,         *)
(* whatever the two bounds are; for a resource with neither bound the      *)
(* receiver's values are as they were.                                     *)
(* Violated: with a minimum above the maximum the value is raised to the   *)
(* minimum and then lowered to the maximum, which is below the minimum.    *)
(***************************************************************************)
C21_ClampWithinBounds ==
    last.op = "ClampRequestsAndLimits" =>
        \A res \in ResourceNames : \A prop \in {ResourceRequests, ResourceLimits} :
            /\ (BothBounds(Was(last.operand), res) /\ IsBound(Now(last.receiver), prop, res))
                => /\ FLe(GetValue(Was(last.operand), ResourcePodMinimum, res),
                          GetValue(Now(last.receiver), prop, res))
                   /\ FLe(GetValue(Now(last.receiver), prop, res),
                          GetValue(Was(last.operand), ResourcePodMaximum, res))
            /\ (~HasBound(Was(last.operand), res) /\ IsBound(Was(last.receiver), prop, res))
                => /\ IsBound(Now(last.receiver), prop, res)
                   /\ Now(last.receiver)[<<prop, res>>] = Was(last.receiver)[<<prop, res>>]


\* is the quantity rendered in scaled notation (not in thousandths)?
Scaled(b) ==
    /\ b.resourceKind = ResourceQuantity
    /\ IsFinite(b.value)
    /\ FGt(b.value, Rat(MilliThreshold, MilliPerUnit))

\* |w - v| / v, for v > 0
RelativeError(v, w) ==
    LET d == FSub(w, v)
    IN FDiv(<<Abs(d[1]), d[2]>>, v)

(***************************************************************************)
(* C22: HumanValue of a quantity binding, parsed back as a resource        *)
(* quantity, gives the value of the binding within a relative error below  *)
(* 1/1000, for every positive value rendered in scaled notation.           *)
(* Violated: the value is cut to a whole number of 10^scale, scale being a *)
(* multiple of 3, so that up to half of it is lost (1999 prints 1k).       *)
(***************************************************************************)
C22_HumanValueRoundTrip ==
    (last.op = "HumanValue" /\ Scaled(last.binding)) =>
        LET parsed == parseQuantity(HumanText(last.binding))
        IN /\ last.text = Join(HumanText(last.binding))
           /\ parsed.ok
           /\ FLt(RelativeError(last.binding.value, parsed.value), Rat(1, 1000))


\* the powers of 1000 the amounts of the model reach: 10^3, 10^6, 10^9
Thousands == {1, 2, 3}

\* is v a whole amount m * 10^(3k), with 1 <= m < 1000?
IsMantissaTimesThousands(v, k) ==
    /\ v[2] = 1
    /\ v[1] % Pow10(3 * k) = 0
    /\ v[1] \div Pow10(3 * k) \in 1..999

\* the m of such an amount
MantissaOf(v, k) == v[1] \div Pow10(3 * k)

\* the SI suffix of 10^(3k)
SuffixOfThousands(k) == CASE k = 1 -> "k" [] k = 2 -> "M" [] k = 3 -> "G"

(***************************************************************************)
(* C23: for every quantity binding whose value is m * 10^(3k) with         *)
(* 1 <= m < 1000 and k >= 1 (840_000_000 and 342_000_000 among them),      *)
(* HumanValue prints m followed by the SI suffix of 10^(3k) (840M, 342M),  *)
(* and the text parses back to the very value: nothing is lost.  (Checked  *)
(* for the amounts the model can count, those below 2^31: k up to 3.)      *)
(***************************************************************************)
C23_ThousandsPrintExactly ==
    (last.op = "HumanValue" /\ last.binding.resourceKind = ResourceQuantity) =>
        \A k \in Thousands :
            IsMantissaTimesThousands(last.binding.value, k)
            => /\ last.text = ToString(MantissaOf(last.binding.value, k))
                                \o SuffixOfThousands(k)
               /\ parseQuantity(HumanText(last.binding))
                    = [ok |-> TRUE, value |-> last.binding.value]

\* HumanValue was called on the binding of 840_000_000 and printed 840M
C23_Witness ==
    /\ last.op = "HumanValue"
    /\ last.binding = NewBinding(ResourceQuantity, ResourceRequests, ResourceCPU,
                                 FromInt(840000000))
    /\ last.text = "840M"


\* every (role, resource) a binding can be for
BoundPairs == allValidResourceProperties \X ResourceNames

\* does the set of slot s hold a pointer that the set of another slot holds?
SharesCells(s) ==
    \E t \in Slots \ {s} : \E k \in DOMAIN algebra.sets[s], j \in DOMAIN algebra.sets[t] :
        algebra.sets[s][k] = algebra.sets[t][j]

(***************************************************************************)
(* C24: Mul returns a new property set that has a binding for a (role,     *)
(* resource) if and only if both the receiver and the operand have one;    *)
(* its value is the product of the two values, its kind is fraction when   *)
(* both kinds are fraction and quantity otherwise.  The result shares no   *)
(* binding with the operands, and neither operand is modified.             *)
(***************************************************************************)
C24_MulKeepsCommonBindings ==
    last.op = "Mul" =>
        LET rp == Was(last.receiver)
            operand == Was(last.operand)
            result == Now("result")
        IN /\ \A k \in BoundPairs :
                k \in DOMAIN result <=> (k \in DOMAIN rp /\ k \in DOMAIN operand)
           /\ \A k \in DOMAIN result :
                /\ result[k].value = FMul(rp[k].value, operand[k].value)
                /\ result[k].resourceKind = ResourceFraction
                     <=> (rp[k].resourceKind = ResourceFraction
                            /\ operand[k].resourceKind = ResourceFraction)
                /\ result[k].resourceKind \in {ResourceFraction, ResourceQuantity}
                /\ <<result[k].resourceProp, result[k].resourceName>> = k
           /\ ~SharesCells("result")
           /\ Now(last.operand) = operand
           /\ last.receiver # "result" => Now(last.receiver) = rp

\* a Mul whose receiver has a binding the operand lacks and whose operand has
\* a binding the receiver lacks, with a result that is not empty
C24_Witness ==
    /\ last.op = "Mul"
    /\ DOMAIN Was(last.receiver) \ DOMAIN Was(last.operand) # {}
    /\ DOMAIN Was(last.operand) \ DOMAIN Was(last.receiver) # {}
    /\ DOMAIN Now("result") # {}


(***************************************************************************)
(* C25: Div panics, returning no result and leaving every property set as  *)
(* it was, exactly when the receiver has a binding for a (role, resource)  *)
(* the operand lacks: it neither skips that binding nor divides by a value *)
(* of its own making.  When it returns, the result has one binding per     *)
(* binding of the receiver, the receiver's value divided by the operand's; *)
(* the bindings only the operand has are absent from it.                   *)
(***************************************************************************)
C25_DivPanicsOnMissingOperand ==
    last.op = "Div" =>
        LET rp == Was(last.receiver)
            operand == Was(last.operand)
            result == Now("result")
        IN /\ last.panicked <=> (\E k \in DOMAIN rp : k \notin DOMAIN operand)
           /\ last.panicked =>
                /\ \A s \in Slots : Now(s) = Was(s)
                /\ ~CanOperate
           /\ ~last.panicked =>
                /\ DOMAIN result = DOMAIN rp
                /\ \A k \in DOMAIN result :
                     /\ result[k].value = FDiv(rp[k].value, operand[k].value)
                     /\ <<result[k].resourceProp, result[k].resourceName>> = k
                /\ Now(last.operand) = operand

\* a Div that panicked, on an operand that has a binding the receiver lacks
C25_Witness ==
    /\ last.op = "Div"
    /\ last.panicked
    /\ DOMAIN Was(last.operand) \ DOMAIN Was(last.receiver) # {}
    /\ DOMAIN Was(last.operand) \cap DOMAIN Was(last.receiver) # {}


\* the operations that work in place on their receiver
InPlaceOperations ==
    {"Add", "BindPropertyFloat", "ForceLimitAboveRequest", "ClampRequestsAndLimits"}

(***************************************************************************)
(* C26: Add(other) modifies only the receiver: each binding of other is    *)
(* summed into the receiver's binding of the same (role, resource), or     *)
(* copied when the receiver has none; other is unchanged.  No binding is   *)
(* ever shared between two property sets, so that an Add,                  *)
(* BindPropertyFloat, ClampRequestsAndLimits or ForceLimitAboveRequest on  *)
(* a receiver changes no value of any other set: not of the operand of an  *)
(* earlier Add, not of the operands of the Mul or Div it results from.     *)
(***************************************************************************)
C26_AddCopiesBindings ==
    /\ \A s \in Slots : ~SharesCells(s)
    /\ last.op \in InPlaceOperations =>
            \A s \in Slots \ {last.receiver} : Now(s) = Was(s)
    /\ last.op = "Add" =>
            LET rp == Was(last.receiver)
                other == Was(last.operand)
                sum == Now(last.receiver)
            IN /\ DOMAIN sum = DOMAIN rp \cup DOMAIN other
               /\ \A k \in DOMAIN sum :
                    IF k \in DOMAIN rp /\ k \in DOMAIN other
                    THEN sum[k] = [rp[k] EXCEPT !.value = FAdd(rp[k].value, other[k].value)]
                    ELSE IF k \in DOMAIN rp THEN sum[k] = rp[k]
                    ELSE sum[k] = other[k]

\* after rp.Add(operand) gave rp a copy of a binding of the operand, an
\* operation in place on rp changed that binding of rp
C26_Witness ==
    /\ Len(algebra.trace) = 2
    /\ algebra.trace[1] = <<"Add", "rp">>
    /\ last.op \in InPlaceOperations \ {"Add"}
    /\ last.receiver = "rp"
    /\ \E k \in DOMAIN Now("operand") \cap DOMAIN Was("rp") :
            /\ Was("rp")[k] = Now("operand")[k]
            /\ Now("rp")[k] # Was("rp")[k]


\* is the request at most the limit wherever a container of the pod declares both?
RequestsWithinLimits(pod) ==
    \A i \in ContainerIndexes(pod) : \A res \in ResourceNames :
        (Declares(pod.containers[i], ResourceRequests, res)
            /\ Declares(pod.containers[i], ResourceLimits, res))
        => FLe(DeclaredValue(pod.containers[i], ResourceRequests, res),
               DeclaredValue(pod.containers[i], ResourceLimits, res))

\* the amount of prop.res in container i (1-based) of the pod once the patch
\* written is applied to it: the amount written by the replace operation on
\* that path when there is one, the amount the pod declared otherwise
PatchedValue(pod, i, prop, res) ==
    IF Replaces(i - 1, prop, res)
    THEN Written(run.containersResourceBudget[pod.containers[i].name][<<prop, res>>])
    ELSE DeclaredValue(pod.containers[i], prop, res)

\* is prop.res set in container i of the patched pod?
PatchedDeclares(pod, i, prop, res) ==
    Declares(pod.containers[i], prop, res) \/ Replaces(i - 1, prop, res)

(***************************************************************************)
(* C27: applying the patch createPatch emits to the pod it was computed    *)
(* from gives a pod in which every container has request <= limit for each *)
(* resource where both are set, provided the pod submitted had; also when  *)
(* a fraction is configured for only one of requests and limits, so that   *)
(* only one side is replaced.                                              *)
(* Violated: ForceLimitAboveRequest sees the computed bindings only, so a  *)
(* request computed alone is never compared with the limit the pod keeps.  *)
(***************************************************************************)
C27_PatchedPodKeepsRequestsWithinLimits ==
    (Succeeded /\ RequestsWithinLimits(request.pod)) =>
        \A i \in ContainerIndexes(request.pod) : \A res \in ResourceNames :
            (PatchedDeclares(request.pod, i, ResourceRequests, res)
                /\ PatchedDeclares(request.pod, i, ResourceLimits, res))
            => FLe(PatchedValue(request.pod, i, ResourceRequests, res),
                   PatchedValue(request.pod, i, ResourceLimits, res))


\* the JSON pointer of role.res in the container of 1-based index i of a
\* pod, as RFC 6901 writes it (the containers are counted from 0)
PointerOf(i, role, res) ==
    "/spec/containers/" \o ToString(i - 1) \o "/resources/" \o role \o "/" \o res

\* is the operation a replace of a declared request or limit of a container
\* of the pod, at that container's path?
ReplacesDeclared(pod, o) ==
    \E i \in ContainerIndexes(pod) : \E k \in Tunables :
        /\ o.Path = PointerOf(i, k[1], k[2])
        /\ Declares(pod.containers[i], k[1], k[2])

\* is some operation of the patch on a pod-minimum or a pod-maximum?
WritesBounds(pod) ==
    \E n \in 1..Len(ReplaceOps) : \E i \in ContainerIndexes(pod) : \E res \in ResourceNames :
        ReplaceOps[n].Path \in {PointerOf(i, ResourcePodMinimum, res),
                                PointerOf(i, ResourcePodMaximum, res)}

RECURSIVE WrittenSum(_, _, _, _)
WrittenSum(pod, prop, res, idxs) ==
    IF idxs = {} THEN Zero
    ELSE LET i == CHOOSE j \in idxs : TRUE
             v == IF Replaces(i - 1, prop, res)
                  THEN Written(run.containersResourceBudget[pod.containers[i].name][<<prop, res>>])
                  ELSE Zero
         IN FAdd(v, WrittenSum(pod, prop, res, idxs \ {i}))

\* did ForceLimitAboveRequest leave every container's computed budget as it was?
NothingForced ==
    \A name \in DOMAIN run.containersResourceBudget :
        run.containersResourceBudget[name] = Computed(name)

(***************************************************************************)
(* C29: for every pod, whatever its container list (two containers of one  *)
(* name included), and every (role, resource) of the pod budget that some  *)
(* container declares, the amounts createPatch writes for that (role,      *)
(* resource), summed over the pod's containers, never exceed the pod       *)
(* budget, and equal it when ForceLimitAboveRequest changes nothing.       *)
(* Violated: two containers of one name are both written the share of the  *)
(* later one, and HumanValue cuts the amounts written.                     *)
(***************************************************************************)
C29_WrittenBudgetsSumToPodBudget ==
    Succeeded =>
        \A k \in DOMAIN run.podResourceBudget \cap Tunables :
            (\E i \in ContainerIndexes(request.pod) :
                Declares(request.pod.containers[i], k[1], k[2]))
            => LET total == WrittenSum(request.pod, k[1], k[2],
                                       ContainerIndexes(request.pod))
               IN /\ FLe(total, run.podResourceBudget[k].value)
                  /\ NothingForced => total = run.podResourceBudget[k].value


\* serve has answered a request whose body decoded as an AdmissionReview
\* with a request in it, and has written a review
WroteReviewOfDecoded ==
    /\ pc # "idle"
    /\ request.body = "review"
    /\ request.contentType = "application/json"
    /\ answer.status = StatusOK

\* does the response carry a patch, typed as a JSON patch?
CarriesPatch(response) ==
    response.Patch # NoBytes /\ response.PatchType = "JSONPatch"

\* does the response carry no patch and no patch type?
CarriesNothing(response) ==
    response.Patch = NoBytes /\ response.PatchType = ""

(***************************************************************************)
(* C30: in every AdmissionReview serve writes for a request that decoded,  *)
(* the response UID is the request UID, and the response carries a patch,  *)
(* of type JSONPatch, if and only if Allowed is true (it carries neither   *)
(* patch nor patch type otherwise).  A request with an empty body gets the *)
(* HTTP error 400 and one with a Content-Type other than application/json  *)
(* the HTTP error 415; mutate and createPatch are not called for them and  *)
(* no review is written.                                                   *)
(***************************************************************************)
C30_ReviewCarriesUidAndPatchIffAllowed ==
    /\ WroteReviewOfDecoded =>
        /\ answer.review.UID = request.uid
        /\ answer.review.Allowed <=> CarriesPatch(answer.review)
        /\ ~answer.review.Allowed <=> CarriesNothing(answer.review)
        /\ answer.review.Allowed <=> Succeeded
    /\ (pc # "idle" /\ request.body = "") =>
        /\ answer.status = StatusBadRequest
        /\ answer.review = NoResponse /\ answer.run = NoRun
    /\ (pc # "idle" /\ request.body # "" /\ request.contentType # "application/json") =>
        /\ answer.status = StatusUnsupportedMediaType
        /\ answer.review = NoResponse /\ answer.run = NoRun

\* a review that allows the pod with a patch of several operations, written
\* for a request whose uid is not the one every other request of the model has
C30_Witness ==
    /\ WroteReviewOfDecoded
    /\ request.uid = "u2"
    /\ answer.review.UID = "u2"
    /\ answer.review.Allowed
    /\ Len(answer.review.Patch.ops) >= 2

=============================================================================
